---- MODULE Spec2Model ----
(***************************************************************************)
(* ArXiv Auto-Analyst: the stage store (src/data/storage.ts), the source   *)
(* fetcher, the relevance filter and the deep analyzer                     *)
(* (src/services/arxivService.ts).                                         *)
(*                                                                         *)
(* localStorage is a sequence of entries [key, val]; the position of an    *)
(* entry is the index localStorage.key(i) answers to.  A key is            *)
(* [dir, file]: dir is the directory prefix ("raw" for 'data/raw/', ...)   *)
(* and file the date of '<date>.json'; file 0 in "reports" is              *)
(* 'manifest.json'.  A value is the parsed JSON document: a snapshot       *)
(* [date, list] with list the papers, or the manifest with date 0 and list *)
(* the date keys.  Dates are day numbers (the UTC date of toISOString).    *)
(***************************************************************************)
EXTENDS Integers, Sequences, FiniteSets, TLC

\* ---------------------------------------------------------------- bounds
MaxDay == 2
MaxReportDay == 9
MaxSweepDay == 3
MaxSweepFiles == 3
MaxListing == 41
MaxFilterInput == 51

Days == 1..MaxDay

\* The payloads handed to the report commit (sequences of paper identifiers).
Payloads == {<<>>, <<1>>}

\* The payload handed to the commits of the two staging directories, whose
\* properties are about which files exist, not about what they hold.
StagedPayloads == {<<1>>}

\* The user agent's order of localStorage.key(i): by key (an ordered map) or
\* by insertion.
KeyOrders == {"sorted", "insertion"}

VARIABLES
    ls,          \* localStorage
    keyOrder,    \* the user agent's key order
    today,       \* new Date().toISOString().split('T')[0]
    lastCommit,  \* history: the last commit or load, [op, date, stale]; a load adds
                 \* [result, before]
    reportLog    \* history: [dates, distinct] of the saveReport calls so far

storeVars == <<ls, keyOrder, today, lastCommit, reportLog>>

\* ------------------------------------------------------- path helpers
PATH_RAW_DIR == "raw"
PATH_FILTERED_DIR == "filtered"
PATH_REPORTS_DIR == "reports"
PATH_MANIFEST == [dir |-> PATH_REPORTS_DIR, file |-> 0]

getRawPath(date) == [dir |-> PATH_RAW_DIR, file |-> date]
getFilteredPath(date) == [dir |-> PATH_FILTERED_DIR, file |-> date]
getReportPath(date) == [dir |-> PATH_REPORTS_DIR, file |-> date]

\* the keys of the settings (App.saveSettings)
KEY_API_KEY == [dir |-> "siliconflow_api_key", file |-> 0]
KEY_MODEL == [dir |-> "siliconflow_model", file |-> 0]
KEY_CLOUD_URL == [dir |-> "cloud_webhook_url", file |-> 0]

\* ------------------------------------------------------- localStorage
\* 'cloud_webhook_url' < 'data/filtered/' < 'data/raw/' < 'data/reports/<digits>'
\* < 'data/reports/manifest.json' < 'siliconflow_api_key' < 'siliconflow_model'
DirRank(dir) == CASE dir = KEY_CLOUD_URL.dir -> 0
                  [] dir = PATH_FILTERED_DIR -> 1
                  [] dir = PATH_RAW_DIR -> 2
                  [] dir = PATH_REPORTS_DIR -> 3
                  [] dir = KEY_API_KEY.dir -> 4
                  [] OTHER -> 5

KeyLess(a, b) ==
    \/ DirRank(a.dir) < DirRank(b.dir)
    \/ /\ a.dir = b.dir
       /\ a # b
       /\ b = PATH_MANIFEST \/ (a # PATH_MANIFEST /\ a.file < b.file)

Keys(s) == {s[i].key : i \in 1..Len(s)}

hasItem(s, k) == k \in Keys(s)

IndexOf(s, k) == CHOOSE i \in 1..Len(s) : s[i].key = k

\* localStorage.getItem for a key that is present
getItem(s, k) == s[IndexOf(s, k)].val

InsertAt(s, i, e) == SubSeq(s, 1, i - 1) \o <<e>> \o SubSeq(s, i, Len(s))

\* localStorage.setItem: an existing key keeps its place
setItem(s, k, v) ==
    IF hasItem(s, k)
    THEN [s EXCEPT ![IndexOf(s, k)].val = v]
    ELSE IF keyOrder = "insertion"
         THEN Append(s, [key |-> k, val |-> v])
         ELSE InsertAt(s, Cardinality({i \in 1..Len(s) : KeyLess(s[i].key, k)}) + 1,
                       [key |-> k, val |-> v])

RemoveAt(s, i) == SubSeq(s, 1, i - 1) \o SubSeq(s, i + 1, Len(s))

\* localStorage.removeItem
removeItem(s, k) == IF hasItem(s, k) THEN RemoveAt(s, IndexOf(s, k)) ELSE s

\* ------------------------------------------------------- StorageService
\* for (let i = 0; i < localStorage.length; i++): the index moves on after a
\* removal, so the entry that slid into place i is not looked at.
RECURSIVE cleanupFrom(_, _, _, _)
cleanupFrom(s, dirPrefix, currentFile, i) ==
    IF i > Len(s) THEN s
    ELSE IF s[i].key.dir = dirPrefix /\ s[i].key # currentFile
         THEN cleanupFrom(RemoveAt(s, i), dirPrefix, currentFile, i + 1)
         ELSE cleanupFrom(s, dirPrefix, currentFile, i + 1)

cleanupDirectory_None(s, dirPrefix, currentFile) == s

cleanupDirectory_AnyPrefix(s, dirPrefix, currentFile) ==
    LET kept(e) == e.key = currentFile
    IN  SelectSeq(s, kept)

cleanupDirectory(s, dirPrefix, currentFile) == cleanupFrom(s, dirPrefix, currentFile, 1)

Snapshot(date, papers) == [date |-> date, list |-> papers]

saveRawData(s, date, papers) ==
    cleanupDirectory(setItem(s, getRawPath(date), Snapshot(date, papers)),
                     PATH_RAW_DIR, getRawPath(date))

saveFilteredData_Sweep(s, date, papers) ==
    cleanupDirectory(
        cleanupDirectory(setItem(s, getFilteredPath(date), Snapshot(date, papers)),
                         PATH_FILTERED_DIR, getFilteredPath(date)),
        PATH_RAW_DIR, getFilteredPath(date))

saveFilteredData(s, date, papers) ==
    cleanupDirectory(setItem(s, getFilteredPath(date), Snapshot(date, papers)),
                     PATH_FILTERED_DIR, getFilteredPath(date))

saveRawDataThrows_SweepFirst(s, date, papers) ==
    cleanupDirectory(s, PATH_RAW_DIR, getRawPath(date))

\* saveRawData when localStorage.setItem throws: the catch is reached with
\* cleanupDirectory and uploadToCloud not called
saveRawDataThrows(s, date, papers) == s

\* saveFilteredData when localStorage.setItem throws
saveFilteredDataThrows(s, date, papers) == s

\* the result of a load: null, or the papers of the snapshot
Null == [isNull |-> TRUE, papers |-> <<>>]

Loaded(papers) == [isNull |-> FALSE, papers |-> papers]

loadRawData_Latest(s, date) ==
    IF \E d \in 1..date : hasItem(s, getRawPath(d))
    THEN Loaded(getItem(s, getRawPath(CHOOSE d \in 1..date : hasItem(s, getRawPath(d)))).list)
    ELSE Null

loadRawData(s, date) ==
    IF hasItem(s, getRawPath(date)) THEN Loaded(getItem(s, getRawPath(date)).list) ELSE Null

loadFilteredData(s, date) ==
    IF hasItem(s, getFilteredPath(date))
    THEN Loaded(getItem(s, getFilteredPath(date)).list)
    ELSE Null

getManifest(s) == IF hasItem(s, PATH_MANIFEST) THEN getItem(s, PATH_MANIFEST).list ELSE <<>>

Includes(seq, x) == \E i \in 1..Len(seq) : seq[i] = x

RECURSIVE removeReports(_, _)
removeReports(s, toRemove) ==
    IF toRemove = <<>> THEN s
    ELSE removeReports(removeItem(s, getReportPath(Head(toRemove))), Tail(toRemove))

RETENTION == 7

updateManifest_Always(s, date) ==
    setItem(s, PATH_MANIFEST, [date |-> 0, list |-> <<date>> \o getManifest(s)])

\* step 2 of saveReport: manifest.unshift(todayStr) when absent
updateManifest(s, date) ==
    IF Includes(getManifest(s), date) THEN s
    ELSE setItem(s, PATH_MANIFEST, [date |-> 0, list |-> <<date>> \o getManifest(s)])

\* the manifest array saveReport holds after step 2
manifestAfter(s, date) ==
    IF Includes(getManifest(s), date) THEN getManifest(s) ELSE <<date>> \o getManifest(s)

trimReports_KeepFiles(s, manifest) ==
    IF Len(manifest) > RETENTION
    THEN setItem(s, PATH_MANIFEST, [date |-> 0, list |-> SubSeq(manifest, 1, RETENTION)])
    ELSE s

trimReports_Oldest(s, manifest) ==
    IF Len(manifest) > RETENTION
    THEN setItem(removeReports(s, SubSeq(manifest, 1, Len(manifest) - RETENTION)),
                 PATH_MANIFEST,
                 [date |-> 0, list |-> SubSeq(manifest, Len(manifest) - RETENTION + 1, Len(manifest))])
    ELSE s

\* step 3 of saveReport: manifest.slice(7) is removed, manifest.slice(0, 7) kept
trimReports(s, manifest) ==
    IF Len(manifest) > RETENTION
    THEN setItem(removeReports(s, SubSeq(manifest, RETENTION + 1, Len(manifest))),
                 PATH_MANIFEST,
                 [date |-> 0, list |-> SubSeq(manifest, 1, RETENTION)])
    ELSE s

saveReport_KeepFirst(s, date, papers) ==
    LET written == IF hasItem(s, getReportPath(date)) THEN s
                   ELSE setItem(s, getReportPath(date), Snapshot(date, papers))
    IN  trimReports(updateManifest(written, date), manifestAfter(written, date))

\* steps 1 to 3 of saveReport, every write succeeding
saveReport(s, date, papers) ==
    LET written == setItem(s, getReportPath(date), Snapshot(date, papers))
    IN  trimReports(updateManifest(written, date), manifestAfter(written, date))

\* saveReport when a localStorage.setItem throws: the catch leaves the store as
\* it is at that statement.  failAt names the statement: the report file, the
\* manifest of step 2, the manifest of step 3.
WritePoints == {"report", "manifest", "trim"}

saveReportThrows(s, date, papers, failAt) ==
    LET written == setItem(s, getReportPath(date), Snapshot(date, papers))
        manifest == manifestAfter(written, date)
    IN  CASE failAt = "report" -> s
          [] failAt = "manifest" ->
                IF Includes(getManifest(written), date)
                THEN trimReports(written, manifest)
                ELSE written
          [] OTHER ->
                IF Len(manifest) > RETENTION
                THEN removeReports(updateManifest(written, date),
                                   SubSeq(manifest, RETENTION + 1, Len(manifest)))
                ELSE updateManifest(written, date)

\* dates.forEach of getHistory: a report is pushed when its file has content
RECURSIVE reportsOf(_, _)
reportsOf(s, dates) ==
    IF dates = <<>> THEN <<>>
    ELSE (IF hasItem(s, getReportPath(Head(dates)))
          THEN <<getItem(s, getReportPath(Head(dates)))>>
          ELSE <<>>) \o reportsOf(s, Tail(dates))

getHistory_AllOrNothing(s) ==
    IF \A i \in 1..Len(getManifest(s)) : hasItem(s, getReportPath(getManifest(s)[i]))
    THEN reportsOf(s, getManifest(s))
    ELSE <<>>

getHistory(s) == reportsOf(s, getManifest(s))

\* a settings string: '' or a value
Setting(on) == [date |-> 0, list |-> IF on THEN <<1>> ELSE <<>>]

\* the three setItem of App.saveSettings
saveSettings(s, key, url) ==
    setItem(setItem(setItem(s, KEY_API_KEY, Setting(key)), KEY_MODEL, Setting(TRUE)),
            KEY_CLOUD_URL, Setting(url))

\* ------------------------------------------------------- store actions
Log(date) == [dates |-> reportLog.dates \cup {date},
              distinct |-> reportLog.distinct /\ date \notin reportLog.dates]

\* the files of a directory other than one date's
OtherFiles(s, dir, date) == {k.file : k \in {x \in Keys(s) : x.dir = dir /\ x.file # date}}

CommitRaw ==
    \E papers \in StagedPayloads :
        /\ ls' = saveRawData(ls, today, papers)
        /\ lastCommit' = [op |-> "raw", date |-> today,
                          stale |-> OtherFiles(ls, PATH_RAW_DIR, today)]
        /\ UNCHANGED <<keyOrder, today, reportLog>>

CommitFiltered ==
    \E papers \in StagedPayloads :
        /\ ls' = saveFilteredData(ls, today, papers)
        /\ lastCommit' = [op |-> "filtered", date |-> today,
                          stale |-> OtherFiles(ls, PATH_FILTERED_DIR, today)]
        /\ UNCHANGED <<keyOrder, today, reportLog>>

\* a commit whose write throws, with the store it was called on
CommitThrows(op, dir, after) ==
    /\ ls' = after
    /\ lastCommit' = [op |-> op, date |-> today, stale |-> OtherFiles(ls, dir, today),
                      before |-> ls]
    /\ UNCHANGED <<keyOrder, today, reportLog>>

\* a load, with its result and the store it was called on
Load(op, dir, result) ==
    /\ lastCommit' = [op |-> op, date |-> today, stale |-> OtherFiles(ls, dir, today),
                      result |-> result, before |-> ls]
    /\ UNCHANGED <<ls, keyOrder, today, reportLog>>

LoadRaw == Load("loadRaw", PATH_RAW_DIR, loadRawData(ls, today))

LoadFiltered == Load("loadFiltered", PATH_FILTERED_DIR, loadFilteredData(ls, today))

ReportCommit(papers) ==
    /\ ls' = saveReport(ls, today, papers)
    /\ lastCommit' = [op |-> "report", date |-> today, stale |-> {}]
    /\ UNCHANGED <<keyOrder, today>>

CommitReport ==
    \E papers \in Payloads :
        /\ ReportCommit(papers)
        /\ UNCHANGED reportLog

\* the system date changes (to any date)
SetClock ==
    \E d \in Days :
        /\ d # today
        /\ today' = d
        /\ UNCHANGED <<ls, keyOrder, lastCommit, reportLog>>

StoreInit ==
    /\ ls = <<>>
    /\ keyOrder \in KeyOrders
    /\ today = 1
    /\ lastCommit = [op |-> "none", date |-> 0, stale |-> {}]
    /\ reportLog = [dates |-> {}, distinct |-> TRUE]

\* ---- the daily report: report commits on a clock that only moves forward
DailyReport ==
    /\ ReportCommit(<<1>>)
    /\ reportLog' = Log(today)

NextDay ==
    \E d \in 1..MaxReportDay :
        /\ d > today
        /\ today' = d
        /\ UNCHANGED <<ls, keyOrder, lastCommit, reportLog>>

\* ---- the history: report commits, some with a write that throws, and getHistory
MaxHistoryDay == 8

HistoryReport ==
    /\ ReportCommit(<<1>>)
    /\ UNCHANGED reportLog

HistoryReportThrows ==
    \E failAt \in WritePoints :
        /\ ls' = saveReportThrows(ls, today, <<1>>, failAt)
        /\ lastCommit' = [op |-> "reportThrows", date |-> today, stale |-> {}]
        /\ UNCHANGED <<keyOrder, today, reportLog>>

LoadHistory ==
    /\ lastCommit' = [op |-> "getHistory", date |-> today, stale |-> {},
                      result |-> getHistory(ls), before |-> ls]
    /\ UNCHANGED <<ls, keyOrder, today, reportLog>>

HistoryDay ==
    /\ today < MaxHistoryDay
    /\ today' = today + 1
    /\ UNCHANGED <<ls, keyOrder, lastCommit, reportLog>>

\* ---- a store that already holds raw and filtered files of any dates
SweepDays == 1..MaxSweepDay

SweepKeys == {getRawPath(d) : d \in SweepDays} \cup {getFilteredPath(d) : d \in SweepDays}

IsKeyOrder(s) ==
    keyOrder = "sorted" => \A i \in 1..Len(s) - 1 : KeyLess(s[i].key, s[i + 1].key)

SweepStores ==
    {[i \in 1..Len(ks) |-> [key |-> ks[i], val |-> Snapshot(ks[i].file, <<1>>)]] :
        ks \in {s \in UNION {[1..n -> SweepKeys] : n \in 0..MaxSweepFiles} :
                   \A i, j \in 1..Len(s) : i # j => s[i] # s[j]}}

SweepStoreInit ==
    /\ keyOrder \in KeyOrders
    /\ ls \in SweepStores
    /\ IsKeyOrder(ls)
    /\ today \in SweepDays
    /\ lastCommit = [op |-> "none", date |-> 0, stale |-> {}]
    /\ reportLog = [dates |-> {}, distinct |-> TRUE]

\* ---- the mirror: uploadToCloud, awaited at the end of a commit
VARIABLES
    mpc,            \* "idle", "uploading": a commit awaits fetch(url)
    cloudUrl,       \* a sink is configured
    mirrorReq,      \* history: the request of the last commit [issued, type, key]
    mirrorLocal,    \* history: the store when the local part of the commit was done
    mirrorResult,   \* history: how the last request ended
    mirrorRaised    \* history: the commit rejected (raised to its caller)

mirrorVars == <<mpc, cloudUrl, mirrorReq, mirrorLocal, mirrorResult, mirrorRaised>>

NoRequest == [issued |-> FALSE, type |-> "none", key |-> PATH_MANIFEST]

\* if (cloudUrl) await uploadToCloud(cloudUrl, type, filePath, data)
MirrorAfter(type, filePath) ==
    /\ mpc = "idle"
    /\ mirrorLocal' = ls'
    /\ mirrorResult' = "none"
    /\ IF cloudUrl
       THEN /\ mpc' = "uploading"
            /\ mirrorReq' = [issued |-> TRUE, type |-> type, key |-> filePath]
       ELSE /\ mpc' = "idle"
            /\ mirrorReq' = NoRequest
    /\ UNCHANGED <<cloudUrl, mirrorRaised>>

MirrorRaw == CommitRaw /\ MirrorAfter("raw_data", getRawPath(today))

MirrorFiltered == CommitFiltered /\ MirrorAfter("filtered_data", getFilteredPath(today))

MirrorReport == CommitReport /\ MirrorAfter("daily_report", getReportPath(today))

\* the catch of a commit skips the upload
MirrorSkipped ==
    /\ mpc = "idle"
    /\ mirrorLocal' = ls'
    /\ mirrorResult' = "none"
    /\ mirrorReq' = NoRequest
    /\ UNCHANGED <<mpc, cloudUrl, mirrorRaised>>

MirrorRawThrows ==
    /\ \E papers \in StagedPayloads :
          CommitThrows("rawThrows", PATH_RAW_DIR, saveRawDataThrows(ls, today, papers))
    /\ MirrorSkipped

MirrorFilteredThrows ==
    /\ \E papers \in StagedPayloads :
          CommitThrows("filteredThrows", PATH_FILTERED_DIR,
                       saveFilteredDataThrows(ls, today, papers))
    /\ MirrorSkipped

UploadOutcomes == {"ok", "notok", "throw"}

MirrorResolve_Raise ==
    /\ mpc = "uploading"
    /\ \E outcome \in UploadOutcomes :
        /\ mirrorResult' = outcome
        /\ mirrorRaised' = (mirrorRaised \/ outcome # "ok")
    /\ mpc' = "idle"
    /\ UNCHANGED <<storeVars, cloudUrl, mirrorReq, mirrorLocal>>

\* fetch(url) settles: an error status is thrown, what is thrown is caught
MirrorResolve ==
    /\ mpc = "uploading"
    /\ \E outcome \in UploadOutcomes :
        /\ mirrorResult' = outcome
        /\ UNCHANGED mirrorRaised
    /\ mpc' = "idle"
    /\ UNCHANGED <<storeVars, cloudUrl, mirrorReq, mirrorLocal>>

\* saveSettings() with another webhook URL
SetCloudUrl ==
    /\ mpc = "idle"
    /\ cloudUrl' = ~cloudUrl
    /\ UNCHANGED <<storeVars, mpc, mirrorReq, mirrorLocal, mirrorResult, mirrorRaised>>

\* the date changes to the next one
Midnight ==
    /\ today < MaxDay
    /\ today' = today + 1
    /\ UNCHANGED <<ls, keyOrder, lastCommit, reportLog>>

MirrorInit ==
    /\ mpc = "idle"
    /\ cloudUrl = FALSE
    /\ mirrorReq = NoRequest
    /\ mirrorLocal = <<>>
    /\ mirrorResult = "none"
    /\ mirrorRaised = FALSE

\* =================================================== Source Fetcher
\* A feed document is the sequence of its entries [id, published]; a listing
\* page is the sequence of the identifiers its href="/abs/<id>" matches give.
\* Times are counted in tenths of a day; a negative time is an invalid date.
VARIABLES
    fpc,             \* "idle", "scrape", "detail", "fallback", "done"
    idLists,         \* per listing URL: [done, ids]
    uniqueIds,
    chunkI,          \* i of the detail loop
    chunkedPapers,
    fbStart,         \* start of the fallback loop
    allPapers,
    newestPaperDate, \* [isNull, time]
    timeWindowDays,
    fetched,         \* the value fetchLatestPapers resolves to
    fetchPath,       \* history: "primary" or "fallback"
    fbPage,          \* history: the last page request [start, outcome, served,
                     \* accepted, stopped, delayed, requests]
    scrapeFailed,    \* history: a listing scrape failed in transport
    detailLog        \* history: per detail batch [chunk, ok, papers]

fetchVars == <<fpc, idLists, uniqueIds, chunkI, chunkedPapers, fbStart, allPapers,
               newestPaperDate, timeWindowDays, fetched, fetchPath, fbPage,
               scrapeFailed, detailLog>>

ArxivPaper(id, published) == [id |-> id, published |-> published]

Range(seq) == {seq[i] : i \in 1..Len(seq)}

SetMin(S) == CHOOSE x \in S : \A y \in S : x <= y

SetMax(S) == CHOOSE x \in S : \A y \in S : x >= y

\* Array.from(new Set(seq)): first occurrences, in order
\* (idx, the positions of the first occurrences, is bound once)
uniq(seq) ==
    LET first(i) == \A j \in 1..(i - 1) : seq[j] # seq[i]
    IN  CHOOSE r \in {[k \in 1..Len(idx) |-> seq[idx[k]]] :
                        idx \in {SelectSeq([i \in 1..Len(seq) |-> i], first)}} : TRUE

extractIdsFromHtml(html) == uniq(html)

\* Array.prototype.slice(from, to)
slice(seq, from, to) == SubSeq(seq, from + 1, IF to < Len(seq) THEN to ELSE Len(seq))

parseArxivXML(xml) == [i \in 1..Len(xml) |-> ArxivPaper(xml[i].id, xml[i].published)]

\* ---- fetchWithProxies
STRATEGIES == 4

Throws == [status |-> "throw", empty |-> TRUE, doc |-> <<>>]
NotOk == [status |-> "notok", empty |-> TRUE, doc |-> <<>>]
EmptyBody == [status |-> "ok", empty |-> TRUE, doc |-> <<>>]
Body(doc) == [status |-> "ok", empty |-> FALSE, doc |-> doc]

Succeeds_Status(a) == a.status = "ok"

Succeeds(a) == a.status = "ok" /\ ~a.empty

\* a response that is ok and has a body (contents, for the JSON wrapper)
\* answers[i] is what relay i answers when asked
fetchWithProxies(answers) ==
    LET wins == {i \in 1..STRATEGIES : Succeeds(answers[i])}
    IN  IF wins = {}
        THEN [ok |-> FALSE, body |-> <<>>, tried |-> STRATEGIES]
        ELSE [ok |-> TRUE, body |-> answers[SetMin(wins)].doc, tried |-> SetMin(wins)]

\* How the relays that fail do so, by position.
FailurePatterns ==
    { <<Throws, NotOk, EmptyBody, Throws>>,
      <<EmptyBody, Throws, NotOk, NotOk>>,
      <<NotOk, EmptyBody, Throws, EmptyBody>> }

\* The relays' answers to one request: the first n fail, the next one (when
\* n < STRATEGIES) answers a document.  A relay behind the first success is
\* never asked, so one answer stands for all it could give.
RelayRuns(docs) ==
    {[i \in 1..STRATEGIES |-> IF i <= n THEN f[i] ELSE IF i = n + 1 THEN Body(d) ELSE Throws] :
        n \in 0..STRATEGIES, f \in FailurePatterns, d \in docs}

\* ---- constants of fetchPapersFallback
totalToFetch == 1000
batchSize == 100
TicksPerDay == 10
WindowStrict == 12
WindowMonday == 40

\* ---- inputs
LongListing == [i \in 1..MaxListing |-> i]

ListingPages == {<<>>, <<1, 2, 1>>, <<2, 3>>, LongListing}

TMon == 4 * TicksPerDay + 5   \* a Monday
TTue == 5 * TicksPerDay + 5   \* a Tuesday

DetailDocs ==
    { <<>>,
      <<ArxivPaper(1, TTue), ArxivPaper(2, TTue)>>,
      <<ArxivPaper(1, TTue), ArxivPaper(1, TTue)>>,
      <<ArxivPaper(3, TTue)>> }

\* a feed whose first record is of each other day of the week (Wednesday to
\* Sunday), followed by a record of the epoch
WeekdayDocs ==
    {<<ArxivPaper(8, d * TicksPerDay + 5), ArxivPaper(9, 0)>> : d \in 6..10}

\* the feeds a page is drawn from once the anchor is set
LaterDocs ==
    { <<>>,
      <<ArxivPaper(1, TTue), ArxivPaper(2, TTue - 12)>>,
      <<ArxivPaper(2, TTue), ArxivPaper(3, 0), ArxivPaper(4, TTue)>>,
      <<ArxivPaper(5, TMon), ArxivPaper(10, TMon - 25)>>,
      <<ArxivPaper(5, TMon), ArxivPaper(6, TMon - 40), ArxivPaper(7, TMon - 41)>> }

\* the feeds the page that sets the anchor is drawn from
FallbackDocs == LaterDocs \cup WeekdayDocs

ListingRuns == RelayRuns(ListingPages)
DetailRuns == RelayRuns(DetailDocs)
FallbackRuns == RelayRuns(FallbackDocs)
LaterRuns == RelayRuns(LaterDocs)

\* ---- fetchPapersFallback

IsNaN(t) == t < 0

\* Date.getDay(); day 0 of the epoch is a Thursday
getDay(t) == ((t \div TicksPerDay) + 4) % 7

\* diffDays > timeWindowDays, false when either date is invalid
TooOld(anchor, t, window) == ~IsNaN(anchor) /\ ~IsNaN(t) /\ anchor - t > window

RECURSIVE relevantFrom(_, _, _, _)

relevantFrom_Filter(papers, i, anchor, window) ==
    LET within(r) == ~TooOld(anchor, r.published, window)
    IN  [relevant |-> SelectSeq(papers, within),
         stopFetching |-> \E k \in 1..Len(papers) : ~within(papers[k])]

\* the records of a page up to the first one beyond the window
relevantFrom(papers, i, anchor, window) ==
    IF i > Len(papers) THEN [relevant |-> papers, stopFetching |-> FALSE]
    ELSE IF TooOld(anchor, papers[i].published, window)
         THEN [relevant |-> SubSeq(papers, 1, i - 1), stopFetching |-> TRUE]
         ELSE relevantFrom(papers, i + 1, anchor, window)

\* position of the last record with an id
LastAt(seq, id) == SetMax({i \in 1..Len(seq) : seq[i].id = id})

\* Array.from(new Map(allPapers.map(item => [item.id, item])).values()):
\* one record per id, at the place of its first occurrence, the last one's value
\* (ids, the keys of the Map in insertion order, is bound once)
dedupe(papers) ==
    CHOOSE r \in {[k \in 1..Len(ids) |-> papers[LastAt(papers, ids[k])]] :
                    ids \in {uniq([i \in 1..Len(papers) |-> papers[i].id])}} : TRUE

windowFor_Strict(anchor) == WindowStrict

\* the window chosen from the anchor's day of the week
windowFor(anchor) ==
    IF ~IsNaN(anchor) /\ getDay(anchor) = 1 THEN WindowMonday ELSE WindowStrict

FallbackDone_Reject(papers) ==
    /\ fpc' = "raised"
    /\ fetched' = <<>>

\* return uniquePapers
FallbackDone(papers) ==
    /\ fpc' = "done"
    /\ fetched' = dedupe(papers)

FallbackNext_Inclusive ==
    IF fbStart + batchSize <= totalToFetch
    THEN /\ fbStart' = fbStart + batchSize
         /\ UNCHANGED <<fpc, fetched>>
    ELSE /\ fbStart' = fbStart
         /\ FallbackDone(allPapers')

\* start += batchSize, and the test of the for loop
FallbackNext ==
    IF fbStart + batchSize < totalToFetch
    THEN /\ fbStart' = fbStart + batchSize
         /\ UNCHANGED <<fpc, fetched>>
    ELSE /\ fbStart' = fbStart
         /\ FallbackDone(allPapers')

\* the request of one turn of the loop: the offset asked, what came back and
\* whether the setTimeout of the turn ran
PageRequest(outcome, served, accepted, stopped, delayed) ==
    [start |-> fbStart, outcome |-> outcome, served |-> served, accepted |-> accepted,
     stopped |-> stopped, delayed |-> delayed, requests |-> fbPage.requests + 1]

\* one turn of the loop of fetchPapersFallback, its request answered from
\* `first` while no anchor is set and from `later` afterwards
FallbackPageFrom(first, later) ==
    /\ fpc = "fallback"
    /\ \E answers \in (IF newestPaperDate.isNull THEN first ELSE later) :
        LET res == fetchWithProxies(answers)
            papers == parseArxivXML(res.body)
            anchor == IF newestPaperDate.isNull THEN papers[1].published
                      ELSE newestPaperDate.time
            window == IF newestPaperDate.isNull THEN windowFor(anchor) ELSE timeWindowDays
            cut == relevantFrom(papers, 1, anchor, window)
        IN  IF ~res.ok
            THEN \* catch: the loop goes on
                 /\ UNCHANGED <<allPapers, newestPaperDate, timeWindowDays>>
                 /\ fbPage' = PageRequest("failed", <<>>, <<>>, FALSE, FALSE)
                 /\ FallbackNext
            ELSE IF papers = <<>>
            THEN /\ UNCHANGED <<allPapers, newestPaperDate, timeWindowDays, fbStart>>
                 /\ fbPage' = PageRequest("empty", <<>>, <<>>, FALSE, FALSE)
                 /\ FallbackDone(allPapers)
            ELSE /\ newestPaperDate' = [isNull |-> FALSE, time |-> anchor]
                 /\ timeWindowDays' = window
                 /\ allPapers' = allPapers \o cut.relevant
                 /\ fbPage' = PageRequest("page", papers, cut.relevant, cut.stopFetching,
                                           ~cut.stopFetching)
                 /\ IF cut.stopFetching
                    THEN /\ fbStart' = fbStart
                         /\ FallbackDone(allPapers')
                    ELSE FallbackNext
    /\ UNCHANGED <<idLists, uniqueIds, chunkI, chunkedPapers, fetchPath, scrapeFailed,
                   detailLog>>

FallbackPage == FallbackPageFrom(FallbackRuns, LaterRuns)

\* ---- fetchLatestPapers
chunkSize == 40

Flat(lists) == lists[1].ids \o lists[2].ids

route_Primary(ids) == "primary"

\* the path taken once both scrapes have resolved
route(ids) == IF Len(ids) = 0 THEN "fallback" ELSE "primary"

\* one of the two scrapes resolves; the second to do so lets Promise.all go on
ScrapeFrom(runs) ==
    /\ fpc = "scrape"
    /\ \E u \in 1..2, answers \in runs :
        LET res == fetchWithProxies(answers)
            ids == IF res.ok THEN extractIdsFromHtml(res.body) ELSE <<>>
            lists == [idLists EXCEPT ![u] = [done |-> TRUE, ids |-> ids]]
            merged == uniq(Flat(lists))
        IN  /\ ~idLists[u].done
            /\ idLists' = lists
            /\ scrapeFailed' = (scrapeFailed \/ ~res.ok)
            /\ IF ~(lists[1].done /\ lists[2].done)
               THEN UNCHANGED <<fpc, uniqueIds, fetchPath>>
               ELSE /\ uniqueIds' = merged
                    /\ fpc' = IF route(merged) = "fallback" THEN "fallback" ELSE "detail"
                    /\ fetchPath' = route(merged)
    /\ UNCHANGED <<chunkI, chunkedPapers, fbStart, allPapers, newestPaperDate,
                   timeWindowDays, fetched, fbPage, detailLog>>

Scrape == ScrapeFrom(ListingRuns)

collect_Reset(chunked, res) ==
    IF res.ok THEN chunked \o parseArxivXML(res.body) ELSE <<>>

\* chunkedPapers.push(...papers), skipped by the catch
collect(chunked, res) ==
    IF res.ok THEN chunked \o parseArxivXML(res.body) ELSE chunked

\* one turn of the detail loop
DetailBatchFrom(runs) ==
    /\ fpc = "detail"
    /\ \E answers \in runs :
        LET res == fetchWithProxies(answers)
            got == collect(chunkedPapers, res)
        IN  /\ chunkedPapers' = got
            /\ detailLog' = Append(detailLog,
                                   [chunk |-> slice(uniqueIds, chunkI, chunkI + chunkSize),
                                    ok |-> res.ok,
                                    papers |-> IF res.ok THEN parseArxivXML(res.body)
                                               ELSE <<>>])
            /\ chunkI' = chunkI + chunkSize
            /\ IF chunkI + chunkSize < Len(uniqueIds)
               THEN UNCHANGED <<fpc, fetched>>
               ELSE /\ fpc' = "done"
                    /\ fetched' = got
    /\ UNCHANGED <<idLists, uniqueIds, fbStart, allPapers, newestPaperDate,
                   timeWindowDays, fetchPath, fbPage, scrapeFailed>>

DetailBatch_FallbackOnEmpty ==
    /\ fpc = "detail"
    /\ \E answers \in DetailRuns :
        LET res == fetchWithProxies(answers)
            got == collect(chunkedPapers, res)
        IN  /\ chunkedPapers' = got
            /\ detailLog' = Append(detailLog,
                                   [chunk |-> slice(uniqueIds, chunkI, chunkI + chunkSize),
                                    ok |-> res.ok,
                                    papers |-> IF res.ok THEN parseArxivXML(res.body)
                                               ELSE <<>>])
            /\ chunkI' = chunkI + chunkSize
            /\ IF chunkI + chunkSize < Len(uniqueIds)
               THEN UNCHANGED <<fpc, fetched>>
               ELSE /\ fpc' = IF got = <<>> THEN "fallback" ELSE "done"
                    /\ fetched' = got
    /\ UNCHANGED <<idLists, uniqueIds, fbStart, allPapers, newestPaperDate,
                   timeWindowDays, fetchPath, fbPage, scrapeFailed>>

DetailBatch == DetailBatchFrom(DetailRuns)

\* fetchLatestPapers() is called
FetchStart ==
    /\ fpc = "idle"
    /\ fpc' = "scrape"
    /\ UNCHANGED <<idLists, uniqueIds, chunkI, chunkedPapers, fbStart, allPapers,
                   newestPaperDate, timeWindowDays, fetched, fetchPath, fbPage,
               scrapeFailed, detailLog>>

FetchInit ==
    /\ fpc = "idle"
    /\ idLists = <<[done |-> FALSE, ids |-> <<>>], [done |-> FALSE, ids |-> <<>>]>>
    /\ uniqueIds = <<>>
    /\ chunkI = 0
    /\ chunkedPapers = <<>>
    /\ fbStart = 0
    /\ allPapers = <<>>
    /\ newestPaperDate = [isNull |-> TRUE, time |-> 0]
    /\ timeWindowDays = WindowStrict
    /\ fetched = <<>>
    /\ fetchPath = "none"
    /\ fbPage = [start |-> 0, outcome |-> "none", served |-> <<>>, accepted |-> <<>>,
                 stopped |-> FALSE, delayed |-> FALSE, requests |-> 0]
    /\ scrapeFailed = FALSE
    /\ detailLog = <<>>

\* ---- fetchWithProxies, one strategy at a time
\* An answer of relay 1 (the JSON wrapper) stands for the envelope: doc is its
\* contents field, empty an envelope without contents; a body that is not JSON
\* makes response.json() throw.
VARIABLES
    rlPc,        \* "idle", "loop", "returned", "raised"
    rlAnswers,   \* what each relay answers when asked
    rlI,         \* index of the strategy of the loop
    rlAsked,     \* history: the strategies asked, in order
    rlOut        \* the string returned

relayVars == <<rlPc, rlAnswers, rlI, rlAsked, rlOut>>

RelayAnswers == {Throws, NotOk, EmptyBody, Body(<<1>>), Body(<<2>>)}

\* fetchWithProxies(url) is called
RelayStart ==
    /\ rlPc = "idle"
    /\ \E answers \in [1..STRATEGIES -> RelayAnswers] :
        /\ rlAnswers' = answers
        /\ rlPc' = "loop"
        /\ rlI' = 1
    /\ UNCHANGED <<rlAsked, rlOut>>

\* one turn of `for (const strategy of strategies)`
RelayTry ==
    /\ rlPc = "loop"
    /\ rlAsked' = Append(rlAsked, rlI)
    /\ IF Succeeds(rlAnswers[rlI])
       THEN /\ rlPc' = "returned"
            /\ rlOut' = rlAnswers[rlI].doc
            /\ UNCHANGED rlI
       ELSE /\ UNCHANGED rlOut
            /\ IF rlI < STRATEGIES
               THEN /\ rlI' = rlI + 1
                    /\ UNCHANGED rlPc
               ELSE /\ rlPc' = "raised"
                    /\ UNCHANGED rlI
    /\ UNCHANGED rlAnswers

RelayInit ==
    /\ rlPc = "idle"
    /\ rlAnswers = [i \in 1..STRATEGIES |-> Throws]
    /\ rlI = 1
    /\ rlAsked = <<>>
    /\ rlOut = <<>>

\* ============================================ Relevance Filter, Deep Analyzer
\* {...a, k: v} is [k |-> v] @@ a.  The scorer's and the analyzer's answer is
\* what callSiliconFlow and JSON.parse make of it: its kind, and for a parsed
\* array the score objects, for a parsed object the three analysis fields.
VARIABLES
    fltPc,              \* "idle", "loop", "await", "returned", "raised"
    fltPending,         \* the start indexes of the processBatch calls not yet resolved
    fltPapers,          \* papers
    fltKey,             \* apiKey is non-empty
    fltI,               \* i of the chunk loop
    allFilteredPapers,
    fltLog,             \* history: per batch [start, batch, sent, kind, scores, results]
    anPc,               \* "idle", "pending", "returned", "raised"
    anPapers,
    anKey,
    anSlots,            \* per item [resolved, kind, out, at]: the promise of analyzeSingle
    anResult

filterVars == <<fltPc, fltPending, fltPapers, fltKey, fltI, allFilteredPapers, fltLog>>

analyzeVars == <<anPc, anPapers, anKey, anSlots, anResult>>

BATCH_SIZE == 50

ScoreObject(id, score) ==
    [id |-> id, relevanceScore |-> score, hasCode |-> TRUE, isAccepted |-> FALSE,
     tags |-> <<"VLM">>, reasoning |-> "r"]

\* batch.find(p => p.id === id)
find(batch, id) == batch[SetMin({i \in 1..Len(batch) : batch[i].id = id})]

merge_Fabricated(original, res) ==
    [id |-> res.id, relevanceScore |-> res.relevanceScore, hasCode |-> res.hasCode,
     isAccepted |-> res.isAccepted, tags |-> res.tags, reasoning |-> res.reasoning]
    @@ original

\* {...original, relevanceScore: res.relevanceScore, ...}
merge(original, res) ==
    [relevanceScore |-> res.relevanceScore, hasCode |-> res.hasCode,
     isAccepted |-> res.isAccepted, tags |-> res.tags, reasoning |-> res.reasoning]
    @@ original

reconcile_FirstOfBatch(batch, results) ==
    [k \in 1..Len(results) |-> merge_Fabricated(batch[1], results[k])]

reconcile_Threshold(batch, results) ==
    LET known(res) == (\E i \in 1..Len(batch) : batch[i].id = res.id) /\ res.relevanceScore >= 7
        hits == SelectSeq(results, known)
    IN  [k \in 1..Len(hits) |-> merge(find(batch, hits[k].id), hits[k])]

\* results.map(...).filter(p => p !== null)
reconcile(batch, results) ==
    LET known(res) == \E i \in 1..Len(batch) : batch[i].id = res.id
        hits == SelectSeq(results, known)
    IN  [k \in 1..Len(hits) |-> merge(find(batch, hits[k].id), hits[k])]

FailureKinds == {"transport", "status", "malformed"}

\* what processBatch returns: the catch and the non-array test give []
processBatch(batch, apiKey, answer) ==
    IF ~apiKey THEN <<>>
    ELSE IF answer.kind = "array" THEN reconcile(batch, answer.scores)
    ELSE <<>>

\* ---- inputs
Paper(id) == ArxivPaper(id, TTue)

LongInput == [i \in 1..MaxFilterInput |-> Paper(i)]

FilterInputs ==
    { <<>>, <<Paper(1)>>, <<Paper(1), Paper(2)>>,
      <<ArxivPaper(1, TTue), ArxivPaper(1, TMon)>>,
      LongInput }

\* an identifier no input holds
UnknownId == MaxFilterInput + 1

ScoreObjects == {ScoreObject(id, score) : id \in {1, MaxFilterInput, UnknownId}, score \in {5, 8}}

ScoreArrays ==
    {<<>>} \cup {<<a>> : a \in ScoreObjects} \cup {<<a, b>> : a \in ScoreObjects, b \in ScoreObjects}

ScorerAnswers ==
    {[kind |-> k, scores |-> <<>>] : k \in FailureKinds \cup {"badelement", "notarray"}}
    \cup {[kind |-> "array", scores |-> a] : a \in ScoreArrays}

\* ---- filterPapersWithLLM
FilterStart ==
    /\ fltPc = "idle"
    /\ \E papers \in FilterInputs, apiKey \in BOOLEAN :
        /\ fltPapers' = papers
        /\ fltKey' = apiKey
        /\ fltPc' = IF Len(papers) = 0 THEN "returned" ELSE "loop"
    /\ UNCHANGED <<fltPending, fltI, allFilteredPapers, fltLog>>

FilterSend_All ==
    /\ fltPc = "loop"
    /\ fltPending' = fltPending \cup
                        {i \in fltI..(Len(fltPapers) - 1) : (i - fltI) % BATCH_SIZE = 0}
    /\ fltPc' = "await"
    /\ UNCHANGED <<fltPapers, fltKey, fltI, allFilteredPapers, fltLog>>

\* processBatch(batch, i) is called: its promise is pending
FilterSend ==
    /\ fltPc = "loop"
    /\ fltPending' = fltPending \cup {fltI}
    /\ fltPc' = "await"
    /\ UNCHANGED <<fltPapers, fltKey, fltI, allFilteredPapers, fltLog>>

FilterBatch_Abort ==
    /\ fltPc = "await"
    /\ \E answer \in ScorerAnswers :
        LET batch == slice(fltPapers, fltI, fltI + BATCH_SIZE)
            batchResults == processBatch(batch, fltKey, answer)
        IN  /\ allFilteredPapers' = allFilteredPapers \o batchResults
            /\ fltLog' = Append(fltLog, [start |-> fltI, batch |-> batch, sent |-> fltKey,
                                         kind |-> IF fltKey THEN answer.kind ELSE "nokey",
                                         scores |-> IF fltKey THEN answer.scores ELSE <<>>,
                                         results |-> batchResults])
    /\ fltPending' = fltPending \ {fltI}
    /\ fltI' = fltI + BATCH_SIZE
    /\ fltPc' = IF fltI + BATCH_SIZE < Len(fltPapers) /\ allFilteredPapers' # allFilteredPapers
                THEN "loop" ELSE "returned"
    /\ UNCHANGED <<fltPapers, fltKey>>

\* the awaited processBatch resolves: the rest of the turn of the chunk loop
FilterBatch ==
    /\ fltPc = "await"
    /\ \E answer \in ScorerAnswers :
        LET batch == slice(fltPapers, fltI, fltI + BATCH_SIZE)
            batchResults == processBatch(batch, fltKey, answer)
        IN  /\ allFilteredPapers' = allFilteredPapers \o batchResults
            /\ fltLog' = Append(fltLog, [start |-> fltI, batch |-> batch, sent |-> fltKey,
                                         kind |-> IF fltKey THEN answer.kind ELSE "nokey",
                                         scores |-> IF fltKey THEN answer.scores ELSE <<>>,
                                         results |-> batchResults])
    /\ fltPending' = fltPending \ {fltI}
    /\ fltI' = fltI + BATCH_SIZE
    /\ fltPc' = IF fltI + BATCH_SIZE < Len(fltPapers) THEN "loop" ELSE "returned"
    /\ UNCHANGED <<fltPapers, fltKey>>

FilterInit ==
    /\ fltPc = "idle"
    /\ fltPending = {}
    /\ fltPapers = <<>>
    /\ fltKey = FALSE
    /\ fltI = 0
    /\ allFilteredPapers = <<>>
    /\ fltLog = <<>>

\* ---- deepAnalyzePapersWithLLM
Analysis(innovations, methodology, value) ==
    [innovations |-> innovations, methodology |-> methodology, value |-> value]

AnalyzerAnswers ==
    {[kind |-> k, analysis |-> Analysis("undefined", "undefined", "undefined")] : k \in FailureKinds}
    \cup {[kind |-> "object", analysis |-> a] :
            a \in {Analysis("i", "m", "v"), Analysis("undefined", "undefined", "undefined")}}

analyzeSingle_Blank(paper, apiKey, answer) ==
    IF apiKey /\ answer.kind = "object"
    THEN answer.analysis @@ paper
    ELSE Analysis("undefined", "undefined", "undefined") @@ paper

\* what the promise of analyzeSingle resolves to
analyzeSingle(paper, apiKey, answer) ==
    IF apiKey /\ answer.kind = "object"
    THEN answer.analysis @@ paper
    ELSE paper

promiseAll_Settled(slots) ==
    LET ok(s) == s.kind = "object"
        kept == SelectSeq(slots, ok)
    IN  [i \in 1..Len(kept) |-> kept[i].out]

promiseAll_Completed(slots) ==
    [k \in 1..Len(slots) |-> slots[CHOOSE i \in 1..Len(slots) : slots[i].at = k].out]

\* Promise.all: the values, in the order of the promises
promiseAll(slots) == [i \in 1..Len(slots) |-> slots[i].out]

Scored(id) == merge(Paper(id), ScoreObject(id, 8))

AnalyzeInputs ==
    { <<>>, <<Scored(1)>>, <<Scored(1), Scored(2)>>, <<Scored(1), Scored(1)>>,
      <<Scored(1), Analysis("old", "old", "old") @@ Scored(2), Scored(3)>> }

AnalyzeStart ==
    /\ anPc = "idle"
    /\ \E papers \in AnalyzeInputs, apiKey \in BOOLEAN :
        /\ anPapers' = papers
        /\ anKey' = apiKey
        /\ anSlots' = [i \in 1..Len(papers) |->
                          [resolved |-> FALSE, kind |-> "pending", out |-> papers[i], at |-> 0]]
    /\ anPc' = "pending"
    /\ UNCHANGED anResult

\* the call of one item resolves, in any order among the items
AnalyzeItem ==
    /\ anPc = "pending"
    /\ \E i \in 1..Len(anSlots), answer \in AnalyzerAnswers :
        /\ ~anSlots[i].resolved
        /\ anSlots' = [anSlots EXCEPT ![i] =
                          [resolved |-> TRUE,
                           kind |-> IF anKey THEN answer.kind ELSE "nokey",
                           out |-> analyzeSingle(anPapers[i], anKey, answer),
                           at |-> Cardinality({j \in 1..Len(anSlots) : anSlots[j].resolved}) + 1]]
    /\ UNCHANGED <<anPc, anPapers, anKey, anResult>>

\* await Promise.all(...)
AnalyzeReturn ==
    /\ anPc = "pending"
    /\ \A i \in 1..Len(anSlots) : anSlots[i].resolved
    /\ anResult' = promiseAll(anSlots)
    /\ anPc' = "returned"
    /\ UNCHANGED <<anPapers, anKey, anSlots>>

AnalyzeInit ==
    /\ anPc = "idle"
    /\ anPapers = <<>>
    /\ anKey = FALSE
    /\ anSlots = <<>>
    /\ anResult = <<>>

\* ======================================================== the pipeline driver
\* runPipeline, one action per stretch of code between two awaits.  A paper is
\* its identifier here; the stages are what the models above establish: none
\* of them rejects, the filter returns records of its input, the analyzer its
\* input's records.
VARIABLES
    status,           \* ProcessingStatus
    ppc,              \* "idle", or the call runPipeline awaits
    apiKey,           \* the key is non-empty
    fetchedData,
    papersToFilter,
    filteredResults,
    papersToAnalyze,
    runFetch,         \* history: the identifiers fetchLatestPapers gave this run
    runSaved,         \* history: per channel what this run wrote [written, key, val]
    pipeLog           \* history: the events of this run, in order

pipeVars == <<status, ppc, apiKey, fetchedData, papersToFilter, filteredResults,
              papersToAnalyze, runFetch, runSaved, pipeLog>>

FetchResults == {<<>>, <<1>>, <<2>>}

\* what the filter can return of its input
FilterResults(papers) == {<<>>, papers}

NotSaved == [written |-> FALSE, key |-> PATH_MANIFEST, val |-> Snapshot(0, <<>>)]

Saved(key, val) == [written |-> TRUE, key |-> key, val |-> val]

NoneSaved == [c \in {"raw", "filtered", "report"} |-> NotSaved]

caught_Swallow(st) == st

\* catch (error) { setStatus(ProcessingStatus.ERROR) }
caught(st) == "ERROR"

filterInput_InMemory(loaded, inMemory) == inMemory

\* filterPapersWithLLM(papersToFilter, ...)
filterInput(loaded, inMemory) == loaded

\* deepAnalyzePapersWithLLM(papersToAnalyze, ...)
analyzeInput(loaded, inMemory) == loaded

\* the run ends: its locals are gone
Return(st, events) ==
    /\ status' = st
    /\ ppc' = "idle"
    /\ pipeLog' = pipeLog \o events
    /\ fetchedData' = <<>>
    /\ papersToFilter' = <<>>
    /\ filteredResults' = <<>>
    /\ papersToAnalyze' = <<>>

Start ==
    /\ status' = "FETCHING"
    /\ ppc' = "fetch"
    /\ pipeLog' = <<>>
    /\ runFetch' = {}
    /\ runSaved' = NoneSaved
    /\ UNCHANGED <<apiKey, fetchedData, papersToFilter, filteredResults, papersToAnalyze>>
    /\ UNCHANGED storeVars

\* the Run button (disabled while a run is in a stage)
RunPipeline ==
    /\ status \in {"IDLE", "COMPLETED", "ERROR"}
    /\ IF apiKey THEN Start ELSE UNCHANGED <<pipeVars, storeVars>>

\* the timer of the auto-run effect, at 23:59
AutoRun ==
    /\ status = "IDLE"
    /\ apiKey
    /\ Start

\* fetchLatestPapers() resolves; up to the await of saveRawData
FetchReturn ==
    /\ ppc = "fetch"
    /\ \E result \in FetchResults, confirm \in BOOLEAN, writeOk \in BOOLEAN :
        LET cachedRaw == loadRawData(ls, today)
            useCache == result = <<>> /\ ~cachedRaw.isNull /\ cachedRaw.papers # <<>> /\ confirm
            data == IF useCache THEN cachedRaw.papers ELSE result
        IN  /\ runFetch' = Range(result)
            /\ IF data = <<>>
               THEN /\ Return("COMPLETED", <<"COMPLETED">>)
                    /\ UNCHANGED <<storeVars, runSaved>>
               ELSE /\ fetchedData' = data
                    /\ ls' = IF writeOk THEN saveRawData(ls, today, data) ELSE ls
                    /\ runSaved' = IF writeOk
                                   THEN [runSaved EXCEPT !["raw"] =
                                           Saved(getRawPath(today), Snapshot(today, data))]
                                   ELSE runSaved
                    /\ ppc' = "saveRawData"
                    /\ UNCHANGED <<status, papersToFilter, filteredResults, papersToAnalyze,
                                   pipeLog, keyOrder, today, lastCommit, reportLog>>
    /\ UNCHANGED apiKey

\* saveRawData resolved; up to the await of filterPapersWithLLM
AfterRawSave ==
    /\ ppc = "saveRawData"
    /\ LET loaded == loadRawData(ls, today)
       IN  IF loaded.isNull \/ loaded.papers = <<>>
           THEN Return(caught("FILTERING"), <<"commit_raw", "load_raw", "throw">>)
           ELSE /\ status' = "FILTERING"
                /\ papersToFilter' = filterInput(loaded.papers, fetchedData)
                /\ ppc' = "filter"
                /\ pipeLog' = pipeLog \o <<"commit_raw", "load_raw", "filter">>
                /\ UNCHANGED <<fetchedData, filteredResults, papersToAnalyze>>
    /\ UNCHANGED <<apiKey, runFetch, runSaved, storeVars>>

\* filterPapersWithLLM resolves; up to the await of saveFilteredData
FilterReturn ==
    /\ ppc = "filter"
    /\ \E results \in FilterResults(papersToFilter), writeOk \in BOOLEAN :
        /\ filteredResults' = results
        /\ ls' = IF writeOk THEN saveFilteredData(ls, today, results) ELSE ls
        /\ runSaved' = IF writeOk
                       THEN [runSaved EXCEPT !["filtered"] =
                               Saved(getFilteredPath(today), Snapshot(today, results))]
                       ELSE runSaved
    /\ ppc' = "saveFilteredData"
    /\ UNCHANGED <<status, apiKey, fetchedData, papersToFilter, papersToAnalyze, runFetch,
                   pipeLog, keyOrder, today, lastCommit, reportLog>>

AfterFilteredSave_NoStop ==
    /\ ppc = "saveFilteredData"
    /\ LET loaded == loadFilteredData(ls, today)
       IN  IF loaded.isNull \/ loaded.papers = <<>>
           THEN Return(caught("ANALYZING"), <<"commit_filtered", "load_filtered", "throw">>)
           ELSE /\ status' = "ANALYZING"
                /\ papersToAnalyze' = analyzeInput(loaded.papers, filteredResults)
                /\ ppc' = "analyze"
                /\ pipeLog' = pipeLog \o <<"commit_filtered", "load_filtered", "analyze">>
                /\ UNCHANGED <<fetchedData, papersToFilter, filteredResults>>
    /\ UNCHANGED <<apiKey, runFetch, runSaved, storeVars>>

\* saveFilteredData resolved; up to the await of deepAnalyzePapersWithLLM
AfterFilteredSave ==
    /\ ppc = "saveFilteredData"
    /\ LET loaded == loadFilteredData(ls, today)
       IN  IF filteredResults = <<>>
           THEN Return("COMPLETED", <<"commit_filtered", "COMPLETED">>)
           ELSE IF loaded.isNull \/ loaded.papers = <<>>
           THEN Return(caught("ANALYZING"), <<"commit_filtered", "load_filtered", "throw">>)
           ELSE /\ status' = "ANALYZING"
                /\ papersToAnalyze' = analyzeInput(loaded.papers, filteredResults)
                /\ ppc' = "analyze"
                /\ pipeLog' = pipeLog \o <<"commit_filtered", "load_filtered", "analyze">>
                /\ UNCHANGED <<fetchedData, papersToFilter, filteredResults>>
    /\ UNCHANGED <<apiKey, runFetch, runSaved, storeVars>>

\* deepAnalyzePapersWithLLM resolves; up to the await of saveReport
AnalyzeDone ==
    /\ ppc = "analyze"
    /\ \E writeOk \in BOOLEAN :
        /\ ls' = IF writeOk THEN saveReport(ls, today, papersToAnalyze) ELSE ls
        /\ runSaved' = IF writeOk
                       THEN [runSaved EXCEPT !["report"] =
                               Saved(getReportPath(today), Snapshot(today, papersToAnalyze))]
                       ELSE runSaved
    /\ ppc' = "saveReport"
    /\ UNCHANGED <<status, apiKey, fetchedData, papersToFilter, filteredResults,
                   papersToAnalyze, runFetch, pipeLog, keyOrder, today, lastCommit, reportLog>>

\* saveReport resolved; to the end of runPipeline
AfterReportSave ==
    /\ ppc = "saveReport"
    /\ Return("COMPLETED", <<"commit_report", "COMPLETED">>)
    /\ UNCHANGED <<apiKey, runFetch, runSaved, storeVars>>

\* the key is typed in or cleared; a run in a stage keeps the key it started with
SetApiKey ==
    /\ ppc = "idle"
    /\ apiKey' = ~apiKey
    /\ UNCHANGED <<status, ppc, fetchedData, papersToFilter, filteredResults, papersToAnalyze,
                   runFetch, runSaved, pipeLog, storeVars>>

PipeInit ==
    /\ status = "IDLE"
    /\ ppc = "idle"
    /\ apiKey = FALSE
    /\ fetchedData = <<>>
    /\ papersToFilter = <<>>
    /\ filteredResults = <<>>
    /\ papersToAnalyze = <<>>
    /\ runFetch = {}
    /\ runSaved = NoneSaved
    /\ pipeLog = <<>>

\* ---------------------------------------------------------- triggers
\* The Run button and the checkTime of the auto-run effect read `status` from
\* the closure of the render that created them. setStatus() changes the state
\* React holds; the button and the interval see it after the next render and
\* the next run of the effect. Several calls of runPipeline() can be under way.
VARIABLES
    runs,         \* the stage of each call of runPipeline() that has not ended
    shownButton,  \* the status of the render the Run button belongs to
    shownTimer,   \* the status in the closure of the interval's checkTime
    ticked,       \* the interval has fired at 23:59 since it was registered
    autoRuns      \* the runs checkTime has started

driverVars == <<runs, shownButton, shownTimer, ticked, autoRuns>>

\* the calls of runPipeline() followed at a time
MaxRuns == 2

Stages == {"FETCHING", "FILTERING", "ANALYZING"}

\* the statuses a run in a stage sets next
StatusAfter(stage) ==
    CASE stage = "FETCHING" -> {"FILTERING", "COMPLETED", "ERROR"}
      [] stage = "FILTERING" -> {"ANALYZING", "COMPLETED", "ERROR"}
      [] stage = "ANALYZING" -> {"COMPLETED", "ERROR"}

Without(s, i) == SubSeq(s, 1, i - 1) \o SubSeq(s, i + 1, Len(s))

\* runPipeline() up to its first await
runPipelineCall(auto) ==
    /\ Len(runs) < MaxRuns
    /\ IF apiKey
       THEN /\ status' = "FETCHING"
            /\ runs' = Append(runs, "FETCHING")
            /\ autoRuns' = autoRuns + (IF auto THEN 1 ELSE 0)
       ELSE UNCHANGED <<status, runs, autoRuns>>
    /\ UNCHANGED <<ppc, apiKey, fetchedData, papersToFilter, filteredResults, papersToAnalyze,
                   runFetch, runSaved, pipeLog, storeVars>>

\* a click on the Run button as the last render drew it; the render that
\* follows the click redraws the button before the next event
ClickRun ==
    /\ shownButton \in {"IDLE", "COMPLETED", "ERROR"}
    /\ runPipelineCall(FALSE)
    /\ shownButton' = status'
    /\ UNCHANGED <<shownTimer, ticked>>

\* the interval fires at 23:59
checkTime ==
    /\ ~ticked
    /\ shownTimer = "IDLE"
    /\ apiKey
    /\ runPipelineCall(TRUE)
    /\ ticked' = TRUE
    /\ UNCHANGED <<shownButton, shownTimer>>

\* a call of runPipeline() goes on after an await: its next setStatus()
RunStage ==
    \E i \in 1..Len(runs) : \E st \in StatusAfter(runs[i]) :
        /\ status' = st
        /\ runs' = IF st \in Stages THEN [runs EXCEPT ![i] = st] ELSE Without(runs, i)
        /\ UNCHANGED <<shownButton, shownTimer, ticked, autoRuns>>
        /\ UNCHANGED <<ppc, apiKey, fetchedData, papersToFilter, filteredResults, papersToAnalyze,
                       runFetch, runSaved, pipeLog, storeVars>>

\* React renders the status it holds
Render ==
    /\ shownButton # status
    /\ shownButton' = status
    /\ UNCHANGED <<runs, shownTimer, ticked, autoRuns, pipeVars, storeVars>>

\* the auto-run effect runs again after a render with another status: the
\* old interval is cleared and a new one registered
AutoRunEffect ==
    /\ shownButton = status
    /\ shownTimer # status
    /\ shownTimer' = status
    /\ ticked' = FALSE
    /\ UNCHANGED <<runs, shownButton, autoRuns, pipeVars, storeVars>>

DriverInit ==
    /\ runs = <<>>
    /\ shownButton = "IDLE"
    /\ shownTimer = "IDLE"
    /\ ticked = FALSE
    /\ autoRuns = 0

\* saveSettings() persists the settings of the form
SaveSettings ==
    /\ ls' = saveSettings(ls, apiKey, cloudUrl)
    /\ UNCHANGED <<keyOrder, today, lastCommit, reportLog>>

vars == <<storeVars, mirrorVars, pipeVars, fetchVars, relayVars, filterVars, analyzeVars, driverVars>>

Init == StoreInit /\ MirrorInit /\ PipeInit /\ FetchInit /\ RelayInit /\ FilterInit /\ AnalyzeInit /\ DriverInit

Next ==
    \/ (CommitRaw /\ UNCHANGED <<mirrorVars, pipeVars, fetchVars, relayVars, filterVars, analyzeVars, driverVars>>)
    \/ (CommitFiltered /\ UNCHANGED <<mirrorVars, pipeVars, fetchVars, relayVars, filterVars, analyzeVars, driverVars>>)
    \/ (CommitReport /\ UNCHANGED <<mirrorVars, pipeVars, fetchVars, relayVars, filterVars, analyzeVars, driverVars>>)
    \/ (SetClock /\ UNCHANGED <<mirrorVars, pipeVars, fetchVars, relayVars, filterVars, analyzeVars, driverVars>>)

Spec == Init /\ [][Next]_vars

NextReport ==
    \/ (DailyReport /\ UNCHANGED <<mirrorVars, pipeVars, fetchVars, relayVars, filterVars, analyzeVars, driverVars>>)
    \/ (NextDay /\ UNCHANGED <<mirrorVars, pipeVars, fetchVars, relayVars, filterVars, analyzeVars, driverVars>>)

SpecReport == Init /\ [][NextReport]_vars

NextHistory ==
    \/ (HistoryReport /\ UNCHANGED <<mirrorVars, pipeVars, fetchVars, relayVars, filterVars, analyzeVars, driverVars>>)
    \/ (HistoryReportThrows /\ UNCHANGED <<mirrorVars, pipeVars, fetchVars, relayVars, filterVars, analyzeVars, driverVars>>)
    \/ (LoadHistory /\ UNCHANGED <<mirrorVars, pipeVars, fetchVars, relayVars, filterVars, analyzeVars, driverVars>>)
    \/ (HistoryDay /\ UNCHANGED <<mirrorVars, pipeVars, fetchVars, relayVars, filterVars, analyzeVars, driverVars>>)

SpecHistory == Init /\ [][NextHistory]_vars

NextSweep ==
    \/ (CommitRaw /\ UNCHANGED <<mirrorVars, pipeVars, fetchVars, relayVars, filterVars, analyzeVars, driverVars>>)
    \/ (CommitFiltered /\ UNCHANGED <<mirrorVars, pipeVars, fetchVars, relayVars, filterVars, analyzeVars, driverVars>>)
    \/ (LoadRaw /\ UNCHANGED <<mirrorVars, pipeVars, fetchVars, relayVars, filterVars, analyzeVars, driverVars>>)
    \/ (LoadFiltered /\ UNCHANGED <<mirrorVars, pipeVars, fetchVars, relayVars, filterVars, analyzeVars, driverVars>>)

SweepInit == SweepStoreInit /\ MirrorInit /\ PipeInit /\ FetchInit /\ RelayInit /\ FilterInit /\ AnalyzeInit /\ DriverInit

SpecSweep == SweepInit /\ [][NextSweep]_vars

NextFetch ==
    \/ (FetchStart /\ UNCHANGED <<storeVars, mirrorVars, pipeVars, relayVars, filterVars, analyzeVars, driverVars>>)
    \/ (Scrape /\ UNCHANGED <<storeVars, mirrorVars, pipeVars, relayVars, filterVars, analyzeVars, driverVars>>)
    \/ (DetailBatch /\ UNCHANGED <<storeVars, mirrorVars, pipeVars, relayVars, filterVars, analyzeVars, driverVars>>)
    \/ (FallbackPage /\ UNCHANGED <<storeVars, mirrorVars, pipeVars, relayVars, filterVars, analyzeVars, driverVars>>)

SpecFetch == Init /\ [][NextFetch]_vars

\* What a request returns, as its caller sees it: the document of the first
\* relay, or the failure of all of them.
Returns(docs) ==
    {[i \in 1..STRATEGIES |-> IF i = 1 THEN Body(d) ELSE Throws] : d \in docs}
        \cup {[i \in 1..STRATEGIES |-> Throws]}

ScrapeReturns == ScrapeFrom(Returns(ListingPages))

DetailReturns == DetailBatchFrom(Returns(DetailDocs))

FallbackReturns == FallbackPageFrom(Returns(FallbackDocs), Returns(LaterDocs))

\* the requests of a fetch under way
FetchStep ==
    \/ (ScrapeReturns /\ UNCHANGED <<storeVars, mirrorVars, pipeVars, relayVars, filterVars, analyzeVars, driverVars>>)
    \/ (DetailReturns /\ UNCHANGED <<storeVars, mirrorVars, pipeVars, relayVars, filterVars, analyzeVars, driverVars>>)
    \/ (FallbackReturns /\ UNCHANGED <<storeVars, mirrorVars, pipeVars, relayVars, filterVars, analyzeVars, driverVars>>)

NextFetchLive ==
    \/ (FetchStart /\ UNCHANGED <<storeVars, mirrorVars, pipeVars, relayVars, filterVars, analyzeVars, driverVars>>)
    \/ FetchStep

\* every request returns, with a document or with a failure
SpecFetchLive == Init /\ [][NextFetchLive]_vars /\ WF_vars(FetchStep)

NextFilter ==
    \/ (FilterStart /\ UNCHANGED <<storeVars, mirrorVars, pipeVars, fetchVars, relayVars, analyzeVars, driverVars>>)
    \/ (FilterSend /\ UNCHANGED <<storeVars, mirrorVars, pipeVars, fetchVars, relayVars, analyzeVars, driverVars>>)
    \/ (FilterBatch /\ UNCHANGED <<storeVars, mirrorVars, pipeVars, fetchVars, relayVars, analyzeVars, driverVars>>)

SpecFilter == Init /\ [][NextFilter]_vars

NextAnalyze ==
    \/ (AnalyzeStart /\ UNCHANGED <<storeVars, mirrorVars, pipeVars, fetchVars, relayVars, filterVars, driverVars>>)
    \/ (AnalyzeItem /\ UNCHANGED <<storeVars, mirrorVars, pipeVars, fetchVars, relayVars, filterVars, driverVars>>)
    \/ (AnalyzeReturn /\ UNCHANGED <<storeVars, mirrorVars, pipeVars, fetchVars, relayVars, filterVars, driverVars>>)

SpecAnalyze == Init /\ [][NextAnalyze]_vars

NextRelay ==
    \/ (RelayStart /\ UNCHANGED <<storeVars, mirrorVars, pipeVars, fetchVars, filterVars, analyzeVars, driverVars>>)
    \/ (RelayTry /\ UNCHANGED <<storeVars, mirrorVars, pipeVars, fetchVars, filterVars, analyzeVars, driverVars>>)

SpecRelay == Init /\ [][NextRelay]_vars

NextMirror ==
    \/ (MirrorRaw /\ UNCHANGED <<pipeVars, fetchVars, relayVars, filterVars, analyzeVars, driverVars>>)
    \/ (MirrorFiltered /\ UNCHANGED <<pipeVars, fetchVars, relayVars, filterVars, analyzeVars, driverVars>>)
    \/ (MirrorReport /\ UNCHANGED <<pipeVars, fetchVars, relayVars, filterVars, analyzeVars, driverVars>>)
    \/ (MirrorRawThrows /\ UNCHANGED <<pipeVars, fetchVars, relayVars, filterVars, analyzeVars, driverVars>>)
    \/ (MirrorFilteredThrows /\ UNCHANGED <<pipeVars, fetchVars, relayVars, filterVars, analyzeVars, driverVars>>)
    \/ (MirrorResolve /\ UNCHANGED <<pipeVars, fetchVars, relayVars, filterVars, analyzeVars, driverVars>>)
    \/ (SetCloudUrl /\ UNCHANGED <<pipeVars, fetchVars, relayVars, filterVars, analyzeVars, driverVars>>)
    \/ (Midnight /\ UNCHANGED <<mirrorVars, pipeVars, fetchVars, relayVars, filterVars, analyzeVars, driverVars>>)

SpecMirror == Init /\ [][NextMirror]_vars

\* the three commits next to the settings
NextChannels ==
    \/ (CommitRaw /\ UNCHANGED <<mirrorVars, pipeVars, fetchVars, relayVars, filterVars, analyzeVars, driverVars>>)
    \/ (CommitFiltered /\ UNCHANGED <<mirrorVars, pipeVars, fetchVars, relayVars, filterVars, analyzeVars, driverVars>>)
    \/ (HistoryReport /\ UNCHANGED <<mirrorVars, pipeVars, fetchVars, relayVars, filterVars, analyzeVars, driverVars>>)
    \/ (SaveSettings /\ UNCHANGED <<mirrorVars, pipeVars, fetchVars, relayVars, filterVars, analyzeVars, driverVars>>)
    \/ (SetCloudUrl /\ UNCHANGED <<pipeVars, fetchVars, relayVars, filterVars, analyzeVars, driverVars>>)
    \/ (Midnight /\ UNCHANGED <<mirrorVars, pipeVars, fetchVars, relayVars, filterVars, analyzeVars, driverVars>>)

SpecChannels == Init /\ [][NextChannels]_vars

otherVars == <<mirrorVars, fetchVars, relayVars, filterVars, analyzeVars, driverVars>>

\* the steps of a run that wait for a call to return
PipeStep ==
    \/ (FetchReturn /\ UNCHANGED otherVars)
    \/ (AfterRawSave /\ UNCHANGED otherVars)
    \/ (FilterReturn /\ UNCHANGED otherVars)
    \/ (AfterFilteredSave /\ UNCHANGED otherVars)
    \/ (AnalyzeDone /\ UNCHANGED otherVars)
    \/ (AfterReportSave /\ UNCHANGED otherVars)

NextPipeline ==
    \/ (RunPipeline /\ UNCHANGED otherVars)
    \/ (AutoRun /\ UNCHANGED otherVars)
    \/ PipeStep
    \/ (SetApiKey /\ UNCHANGED otherVars)
    \/ (Midnight /\ UNCHANGED <<pipeVars, otherVars>>)

SpecPipeline == Init /\ [][NextPipeline]_vars

\* every call a run awaits returns
SpecPipelineLive == Init /\ [][NextPipeline]_vars /\ WF_vars(PipeStep)

NextDriver ==
    \/ (ClickRun /\ UNCHANGED <<mirrorVars, fetchVars, relayVars, filterVars, analyzeVars>>)
    \/ (checkTime /\ UNCHANGED <<mirrorVars, fetchVars, relayVars, filterVars, analyzeVars>>)
    \/ (RunStage /\ UNCHANGED <<mirrorVars, fetchVars, relayVars, filterVars, analyzeVars>>)
    \/ (Render /\ UNCHANGED <<mirrorVars, fetchVars, relayVars, filterVars, analyzeVars>>)
    \/ (AutoRunEffect /\ UNCHANGED <<mirrorVars, fetchVars, relayVars, filterVars, analyzeVars>>)
    \/ (SetApiKey /\ UNCHANGED otherVars)

SpecDriver == Init /\ [][NextDriver]_vars

\* ======================================================== properties
Min(a, b) == IF a < b THEN a ELSE b

Manifest == getManifest(ls)

\* the dates that have a report snapshot in the store
ReportFiles == {k.file : k \in {x \in Keys(ls) : x.dir = PATH_REPORTS_DIR /\ x # PATH_MANIFEST}}

\* the files of a directory
FilesOf(dir) == {k.file : k \in {x \in Keys(ls) : x.dir = dir}}

\* a set of dates, newest first
RECURSIVE NewestFirst(_)
NewestFirst(S) == IF S = {} THEN <<>> ELSE <<SetMax(S)>> \o NewestFirst(S \ {SetMax(S)})

\* C1: after N report commits on N distinct dates, from an empty report
\* namespace, the manifest has min(N, 7) entries, never more than 7, and the
\* report snapshots in the store are exactly those of the manifest's dates.
C1_RetentionBound ==
    /\ Len(Manifest) <= RETENTION
    /\ ReportFiles = Range(Manifest)
    /\ reportLog.distinct => Len(Manifest) = Min(Cardinality(reportLog.dates), RETENTION)

C1_Witness ==
    /\ reportLog.distinct
    /\ Cardinality(reportLog.dates) = RETENTION + 2
    /\ Len(Manifest) = RETENTION

\* C2: right after commit_raw the raw namespace holds exactly one snapshot,
\* keyed by the date of that call, in every store reached from the empty one
\* by commits on any dates; likewise commit_filtered and the filtered namespace.
C2_SingleSlot ==
    /\ lastCommit.op = "raw" => FilesOf(PATH_RAW_DIR) = {lastCommit.date}
    /\ lastCommit.op = "filtered" => FilesOf(PATH_FILTERED_DIR) = {lastCommit.date}

\* a commit_raw that found the snapshot of another date, with reports around
C2_Witness ==
    /\ lastCommit.op = "raw"
    /\ lastCommit.stale # {}
    /\ FilesOf(PATH_RAW_DIR) = {lastCommit.date}
    /\ FilesOf(PATH_FILTERED_DIR) # {}
    /\ ReportFiles # {}

\* C3: commit_raw and commit_filtered delete every key of their namespace
\* other than the one just written, however many stale keys it held.
C3_SweepsAll ==
    lastCommit.op \in {"raw", "filtered"} =>
        \A k \in Keys(ls) : k.dir = lastCommit.op => k.file = lastCommit.date

\* C4: after report commits on more than 7 distinct, increasing dates the
\* manifest holds the 7 most recent dates and no older date has a snapshot.
C4_HistoryTrim ==
    (reportLog.distinct /\ Cardinality(reportLog.dates) > RETENTION) =>
        /\ Manifest = SubSeq(NewestFirst(reportLog.dates), 1, RETENTION)
        /\ \A d \in reportLog.dates \ Range(Manifest) : ~hasItem(ls, getReportPath(d))

C4_Witness ==
    /\ reportLog.distinct
    /\ reportLog.dates = 1..(RETENTION + 2)
    /\ ~hasItem(ls, getReportPath(1))
    /\ ~hasItem(ls, getReportPath(2))
    /\ hasItem(ls, getReportPath(3))

\* C5: the sequence fetch_latest returns holds each paper identifier at most
\* once, on the primary path and on the fallback path.
C5_UniqueIds ==
    fpc = "done" => \A i, j \in 1..Len(fetched) : fetched[i].id = fetched[j].id => i = j

\* how often an identifier occurs in a sequence of records
Count(seq, id) == Cardinality({i \in 1..Len(seq) : seq[i].id = id})

Ids(seq) == {seq[i].id : i \in 1..Len(seq)}

BatchOf(entry) == slice(fltPapers, entry.start, entry.start + BATCH_SIZE)

\* C7: every record the Relevance Filter outputs has the identifier of a
\* record of the batch its scoring request was made for and that record's
\* fields other than the score fields; no record comes from a score object
\* whose identifier is not in the batch.
C7_ReconciliationSafety ==
    /\ \A k \in 1..Len(fltLog) : \A r \in Range(fltLog[k].results) :
          \E p \in Range(BatchOf(fltLog[k])) :
              /\ p.id = r.id
              /\ \A f \in DOMAIN p : r[f] = p[f]
    /\ Range(allFilteredPapers) = UNION {Range(fltLog[k].results) : k \in 1..Len(fltLog)}

\* the second batch is answered with a score for a record of the first batch,
\* one for an unknown identifier is answered to the first
C7_Witness ==
    /\ fltPc = "returned"
    /\ Len(fltLog) = 2
    /\ fltLog[1].kind = "array"
    /\ UnknownId \in Ids(fltLog[1].scores)
    /\ fltLog[2].kind = "array"
    /\ Ids(fltLog[2].scores) = {1, MaxFilterInput}
    /\ Ids(fltLog[2].results) = {MaxFilterInput}

\* C8: without credentials the filter stage and the analyze stage, called
\* with records to work on, fail with an error raised to their caller before
\* any batch or item work; they do not return a normal result.
C8_FailFast ==
    /\ (fltPc \in {"returned", "raised"} /\ ~fltKey /\ fltPapers # <<>>) =>
          (fltPc = "raised" /\ fltLog = <<>>)
    /\ (anPc \in {"returned", "raised"} /\ ~anKey /\ anPapers # <<>>) => anPc = "raised"

Failed(entry) == entry.kind \in FailureKinds \cup {"badelement", "notarray", "nokey"}

RECURSIVE Concat(_)
Concat(seqs) == IF seqs = <<>> THEN <<>> ELSE Head(seqs) \o Concat(Tail(seqs))

\* C9: a failed batch of the Relevance Filter contributes no record, raises
\* nothing to the caller and leaves the other batches alone: every batch is
\* sent, each answered batch gives one record per score object of a known
\* identifier, and the output is the batches' results in order.
C9_BatchContainment ==
    /\ fltPc # "raised"
    /\ \A k \in 1..Len(fltLog) :
          /\ fltLog[k].start = (k - 1) * BATCH_SIZE
          /\ Failed(fltLog[k]) => fltLog[k].results = <<>>
          /\ ~Failed(fltLog[k]) =>
                Len(fltLog[k].results) =
                    Cardinality({i \in 1..Len(fltLog[k].scores) :
                                    fltLog[k].scores[i].id \in Ids(BatchOf(fltLog[k]))})
    /\ allFilteredPapers = Concat([k \in 1..Len(fltLog) |-> fltLog[k].results])
    /\ fltPc = "returned" => Len(fltLog) * BATCH_SIZE >= Len(fltPapers)

C9_Witness ==
    /\ fltPc = "returned"
    /\ Len(fltLog) = 2
    /\ fltLog[1].kind \in FailureKinds
    /\ fltLog[2].kind = "array"
    /\ Len(allFilteredPapers) = 1

AnalysisFields == {"innovations", "methodology", "value"}

\* C10: an item whose analysis call fails is in the Deep Analyzer's output as
\* it was on input, nothing is raised, the other items keep their place and
\* their own fields, and the result is there only when every call has resolved.
C10_ItemContainment ==
    /\ anPc # "raised"
    /\ \A i \in 1..Len(anSlots) :
          (anSlots[i].resolved /\ anSlots[i].kind # "object") => anSlots[i].out = anPapers[i]
    /\ anPc = "returned" =>
          /\ \A i \in 1..Len(anSlots) : anSlots[i].resolved
          /\ Len(anResult) = Len(anPapers)
          /\ \A i \in 1..Len(anPapers) :
                /\ anResult[i] = anSlots[i].out
                /\ \A f \in DOMAIN anPapers[i] \ AnalysisFields : anResult[i][f] = anPapers[i][f]

C10_Witness ==
    /\ anPc = "returned"
    /\ Len(anPapers) = 3
    /\ anSlots[1].kind = "object"
    /\ anResult[1].innovations = "i"
    /\ anSlots[2].kind = "status"
    /\ anResult[2].innovations = "old"
    /\ anSlots[3].kind = "transport"
    /\ DOMAIN anResult[3] = DOMAIN anPapers[3]

\* C11: when the two listing scrapes together give no identifier (a scrape
\* that failed in transport gives none), fetch_latest makes no detail request,
\* takes the fallback and returns what the fallback accepted, one record per
\* identifier.
C11_FallbackRouting ==
    /\ (idLists[1].done /\ idLists[2].done /\ Flat(idLists) = <<>>) =>
          /\ fetchPath = "fallback"
          /\ fpc \in {"fallback", "done"}
          /\ chunkedPapers = <<>>
    /\ (fpc = "done" /\ fetchPath = "fallback") =>
          /\ Ids(fetched) = Ids(allPapers)
          /\ Range(fetched) \subseteq Range(allPapers)
    /\ fetchPath = "fallback" => Flat(idLists) = <<>>

\* a scrape failed in transport and no identifier was found
C11_Witness ==
    /\ fpc = "done"
    /\ fetchPath = "fallback"
    /\ scrapeFailed
    /\ Len(fetched) = 2

\* age of a record relative to the anchor
Age(r) == newestPaperDate.time - r.published

\* C12: once the anchor is set the window is 4.0 days if the anchor's day of
\* the week is Monday and 1.2 days otherwise, every accepted record is within
\* it, and neither the anchor nor the window changes afterwards.
C12_WindowChoice ==
    /\ [](~newestPaperDate.isNull =>
            /\ timeWindowDays =
                  IF getDay(newestPaperDate.time) = 1 THEN 4 * TicksPerDay
                  ELSE (12 * TicksPerDay) \div 10
            /\ \A r \in Range(allPapers) : Age(r) <= timeWindowDays)
    /\ [][~newestPaperDate.isNull => UNCHANGED <<newestPaperDate, timeWindowDays>>]_vars

\* a Monday anchor: a record of a later page, exactly 4.0 days older, is accepted
C12_Witness ==
    /\ ~newestPaperDate.isNull
    /\ fbStart > 0
    /\ getDay(newestPaperDate.time) = 1
    /\ timeWindowDays = WindowMonday
    /\ \E r \in Range(allPapers) : Age(r) = WindowMonday

\* C13: of the last page parsed the accepted records are the longest prefix
\* whose ages are at most the window; when a record was beyond the window the
\* rest of the page is dropped and the fallback has returned, no page being
\* requested after it.
C13_StopAtFirstOld ==
    LET n == Len(fbPage.accepted)
    IN  /\ n <= Len(fbPage.served)
        /\ fbPage.accepted = SubSeq(fbPage.served, 1, n)
        /\ \A i \in 1..n : Age(fbPage.served[i]) <= timeWindowDays
        /\ n < Len(fbPage.served) =>
              /\ Age(fbPage.served[n + 1]) > timeWindowDays
              /\ fbPage.stopped
        /\ fbPage.stopped => (fpc = "done" /\ n < Len(fbPage.served))
        /\ n <= Len(allPapers)
        /\ SubSeq(allPapers, Len(allPapers) - n + 1, Len(allPapers)) = fbPage.accepted

\* a second page: its second record is beyond the window, its third is not;
\* a record of the first page is exactly 1.2 days old
C13_Witness ==
    /\ fbPage.stopped
    /\ fbStart > 0
    /\ Len(fbPage.accepted) = 1
    /\ Len(fbPage.served) = 3
    /\ Age(fbPage.served[3]) <= timeWindowDays
    /\ \E r \in Range(allPapers) : Age(r) = timeWindowDays

\* a relay's answer has a non-error status and a non-empty body
Yields(a) == a.status = "ok" /\ ~a.empty

\* C14: the relays are asked in the order 1, 2, ... without a gap; the call
\* returns the body of the first relay that yields (ok status, non-empty
\* body), asks none after it, and raises if and only if no relay yields.
C14_FirstSuccessWins ==
    /\ rlAsked = [k \in 1..Len(rlAsked) |-> k]
    /\ \A k \in 1..Len(rlAsked) - 1 : ~Yields(rlAnswers[k])
    /\ rlPc = "returned" =>
          /\ Yields(rlAnswers[Len(rlAsked)])
          /\ rlOut = rlAnswers[Len(rlAsked)].doc
          /\ fetchWithProxies(rlAnswers) =
                [ok |-> TRUE, body |-> rlOut, tried |-> Len(rlAsked)]
    /\ rlPc = "raised" =>
          /\ Len(rlAsked) = STRATEGIES
          /\ \A i \in 1..STRATEGIES : ~Yields(rlAnswers[i])
          /\ ~fetchWithProxies(rlAnswers).ok
    /\ (rlPc \in {"returned", "raised"} /\ \A i \in 1..STRATEGIES : ~Yields(rlAnswers[i])) =>
          rlPc = "raised"

\* the wrapper throws, the second relay answers an error status, the third an
\* empty body, the fourth a document
C14_Witness ==
    /\ rlPc = "returned"
    /\ rlAnswers[1] = Throws
    /\ rlAnswers[2] = NotOk
    /\ rlAnswers[3] = EmptyBody
    /\ rlOut = <<2>>
    /\ rlAsked = <<1, 2, 3, 4>>

C16_SameCycleProvenance ==
    /\ runSaved["filtered"].written => Range(runSaved["filtered"].val.list) \subseteq runFetch
    /\ runSaved["report"].written => Range(runSaved["report"].val.list) \subseteq runFetch

\* position of an event in the log of the run, 0 if it is not there
Pos(e) == IF \E i \in 1..Len(pipeLog) : pipeLog[i] = e
          THEN CHOOSE i \in 1..Len(pipeLog) : pipeLog[i] = e
          ELSE 0

\* the contents of the snapshots of a channel's directory
Stored(dir) == {getItem(ls, k).list : k \in {x \in Keys(ls) : x.dir = dir /\ x # PATH_MANIFEST}}

\* C17: in a run commit_raw has returned before the filter is called,
\* commit_filtered before the analyzer is called, commit_report before the run
\* that analyzed is COMPLETED; the filter is called with the snapshot read
\* back from the raw channel and the analyzer with the one read back from the
\* filtered channel.
C17_StageOrder ==
    /\ Pos("filter") > 0 => (0 < Pos("commit_raw") /\ Pos("commit_raw") < Pos("load_raw")
                              /\ Pos("load_raw") < Pos("filter"))
    /\ Pos("analyze") > 0 =>
          /\ Pos("filter") < Pos("commit_filtered")
          /\ Pos("commit_filtered") < Pos("load_filtered")
          /\ Pos("load_filtered") < Pos("analyze")
    /\ (Pos("analyze") > 0 /\ Pos("COMPLETED") > 0) =>
          (Pos("analyze") < Pos("commit_report") /\ Pos("commit_report") < Pos("COMPLETED"))
    /\ ppc = "filter" => papersToFilter \in Stored(PATH_RAW_DIR)
    /\ ppc = "analyze" => papersToAnalyze \in Stored(PATH_FILTERED_DIR)

\* the write of commit_raw failed: the filter is called with the snapshot an
\* earlier run left, not with what this run holds in memory
C17_Witness ==
    /\ ppc = "filter"
    /\ ~runSaved["raw"].written
    /\ papersToFilter # fetchedData
    /\ pipeLog = <<"commit_raw", "load_raw", "filter">>

Intact(c) ==
    runSaved[c].written =>
        (hasItem(ls, runSaved[c].key) /\ getItem(ls, runSaved[c].key) = runSaved[c].val)

\* C18: the raw snapshot a run wrote stays in the store as written, and so
\* does its filtered snapshot, through the later stages and however the run
\* ends.
C18_CommittedStays ==
    /\ Intact("raw")
    /\ Intact("filtered")

\* the date changed after commit_filtered: the read-back fails, the run ends
\* in ERROR with both snapshots in the store
C18_Witness ==
    /\ status = "ERROR"
    /\ runSaved["raw"].written
    /\ runSaved["filtered"].written
    /\ runSaved["filtered"].val.list # <<>>
    /\ Intact("raw")
    /\ Intact("filtered")

InStage == status \in {"FETCHING", "FILTERING", "ANALYZING"}

\* C19: a run that is in a stage ends COMPLETED or ERROR; a run that ended on
\* an exception is in ERROR; between runs the status is not that of a stage.
C19_Terminates ==
    /\ InStage ~> status \in {"COMPLETED", "ERROR"}
    /\ [](ppc = "idle" => ~InStage)
    /\ []((ppc = "idle" /\ Pos("throw") > 0) => status = "ERROR")

\* the raw snapshot could not be read back
C19_Witness ==
    /\ status = "ERROR"
    /\ pipeLog = <<"commit_raw", "load_raw", "throw">>

\* the channel a load reads
LoadDir == IF lastCommit.op = "loadRaw" THEN PATH_RAW_DIR ELSE PATH_FILTERED_DIR

\* C20: load_raw and load_filtered leave the store as it was; they return
\* null exactly when the channel has no snapshot under the current date,
\* whatever other dates it holds, and otherwise that snapshot's papers.
C20_LoadAbsent ==
    lastCommit.op \in {"loadRaw", "loadFiltered"} =>
        /\ ls = lastCommit.before
        /\ lastCommit.result.isNull <=> lastCommit.date \notin FilesOf(LoadDir)
        /\ ~lastCommit.result.isNull =>
              \E i \in 1..Len(ls) :
                  /\ ls[i].key = [dir |-> LoadDir, file |-> lastCommit.date]
                  /\ ls[i].val.list = lastCommit.result.papers

\* load_raw on a date without a snapshot, the raw channel holding another date's
C20_Witness ==
    /\ lastCommit.op = "loadRaw"
    /\ lastCommit.result.isNull
    /\ lastCommit.stale # {}
    /\ FilesOf(PATH_RAW_DIR) = lastCommit.stale
    /\ ls = lastCommit.before

\* the positions of the manifest whose report file is in the store
Present(s) == {i \in 1..Len(getManifest(s)) : hasItem(s, getReportPath(getManifest(s)[i]))}

\* the place in the history of the report of manifest position i
Rank(s, i) == Cardinality({j \in Present(s) : j <= i})

\* C21: getHistory returns, in manifest order, the report of every manifest
\* entry whose file is in the store; an entry whose file is missing is skipped
\* and the others are still returned; the call changes neither the store
\* nor the manifest.
C21_HistorySkipsMissing ==
    /\ [](lastCommit.op = "getHistory" =>
            LET s == lastCommit.before
                h == lastCommit.result
            IN  /\ Len(h) = Cardinality(Present(s))
                /\ \A i \in Present(s) :
                       h[Rank(s, i)] = getItem(s, getReportPath(getManifest(s)[i])))
    /\ [][lastCommit'.op = "getHistory" /\ lastCommit' # lastCommit => ls' = ls]_vars

C21_Witness ==
    /\ lastCommit.op = "getHistory"
    /\ ls = lastCommit.before
    /\ Len(getManifest(ls)) > RETENTION
    /\ Cardinality(Present(ls)) = RETENTION
    /\ Len(lastCommit.result) = RETENTION

\* the places of a logged answer whose score object names a record of the batch
Matching(entry) ==
    {k \in 1..Len(entry.scores) : entry.scores[k].id \in Ids(BatchOf(entry))}

\* C22: the Relevance Filter applies no score threshold of its own: every
\* score object the scorer returned whose identifier matches a record of the
\* batch is in the output with the returned score, scores below 7 included,
\* one output record per such score object.
C22_NoLocalThreshold ==
    \A n \in 1..Len(fltLog) :
        LET entry == fltLog[n]
        IN  entry.kind = "array" =>
                /\ Len(entry.results) = Cardinality(Matching(entry))
                /\ \A k \in Matching(entry) :
                       LET place == Cardinality({j \in Matching(entry) : j <= k})
                       IN  /\ entry.results[place].id = entry.scores[k].id
                           /\ entry.results[place].relevanceScore = entry.scores[k].relevanceScore
                           /\ \E i \in 1..Len(allFilteredPapers) :
                                  allFilteredPapers[i] = entry.results[place]

\* a score of 5 and a score of 8 are answered for records of the batch
C22_Witness ==
    /\ fltPc = "returned"
    /\ Len(fltLog) = 2
    /\ fltLog[1].kind = "array"
    /\ Len(fltLog[1].scores) = 2
    /\ fltLog[1].scores[1].id = 1
    /\ fltLog[1].scores[1].relevanceScore = 5
    /\ fltLog[1].scores[2].relevanceScore = 8
    /\ Len(fltLog[1].results) = 1
    /\ fltLog[1].results[1].relevanceScore = 5
    /\ fltLog[2].kind = "array"
    /\ Len(fltLog[2].results) = 2

\* C23: on the primary path the n > 0 unique identifiers are queried in
\* ceil(n/40) batches of at most 40, one after the other, every identifier in
\* exactly one batch; fetchLatestPapers returns the records of the batches
\* that succeeded, concatenated in batch order; a batch that failed adds no
\* record and the batches after it are still queried.
C23_PrimaryBatches ==
    LET n == Len(uniqueIds)
        asked == Concat([k \in 1..Len(detailLog) |-> detailLog[k].chunk])
        given == Concat([k \in 1..Len(detailLog) |->
                            IF detailLog[k].ok THEN detailLog[k].papers ELSE <<>>])
    IN  /\ \A k \in 1..Len(detailLog) :
              /\ Len(detailLog[k].chunk) \in 1..chunkSize
              /\ k < Len(detailLog) => Len(detailLog[k].chunk) = chunkSize
        /\ asked = SubSeq(uniqueIds, 1, Len(asked))
        /\ \A i, j \in 1..n : uniqueIds[i] = uniqueIds[j] => i = j
        /\ chunkedPapers = given
        /\ (fpc = "done" /\ fetchPath = "primary") =>
              /\ n > 0
              /\ Len(detailLog) = (n + chunkSize - 1) \div chunkSize
              /\ asked = uniqueIds
              /\ fetched = given

\* the first of two batches fails, the second one answers two records
C23_Witness ==
    /\ fpc = "done"
    /\ fetchPath = "primary"
    /\ Len(uniqueIds) = MaxListing
    /\ Len(detailLog) = 2
    /\ ~detailLog[1].ok
    /\ detailLog[2].ok
    /\ Len(detailLog[2].chunk) = MaxListing - chunkSize
    /\ Len(fetched) = 2

\* C24: with every report commit made on the date the clock shows at the call,
\* a clock that does not go back, the manifest holds no date twice and its
\* dates are strictly decreasing (newest first); after a commit its first
\* entry is the date of that commit.
C24_ManifestNewestFirst ==
    /\ \A i, j \in 1..Len(Manifest) : i < j => Manifest[i] > Manifest[j]
    /\ lastCommit.op = "report" => (Manifest # <<>> /\ Manifest[1] = lastCommit.date)

\* a commit on the eighth day: the manifest is trimmed to the dates 8 down to 2
C24_Witness ==
    /\ lastCommit.op = "report"
    /\ lastCommit.date = RETENTION + 1
    /\ Len(Manifest) = RETENTION
    /\ Manifest[RETENTION] = 2
    /\ ~hasItem(ls, getReportPath(1))

\* C25: the page requests of a fallback cycle are made one at a time at the
\* offsets 0, 100, 200, ... in this order, the next one only once the page
\* before it has been evaluated against the window; no request is made at
\* offset 1000 or beyond, so a cycle makes at most 10 of them.
C25_SequentialPages ==
    /\ [](/\ fbPage.requests <= totalToFetch \div batchSize
          /\ fbPage.requests > 0 =>
                /\ fbPage.start = (fbPage.requests - 1) * batchSize
                /\ fbPage.start < totalToFetch)
    /\ [][fbPage' # fbPage =>
            /\ fpc = "fallback"
            /\ fbPage'.requests = fbPage.requests + 1
            /\ fbPage'.start = fbStart
            /\ fbPage.requests > 0 =>
                  /\ fbPage'.start = fbPage.start + batchSize
                  /\ fbPage.outcome \in {"failed", "page"}
                  /\ ~fbPage.stopped
            /\ fpc' = "fallback" => fbStart' = fbStart + batchSize]_vars

\* the tenth page, at offset 900, is served and accepted in full
C25_Witness ==
    /\ fpc = "done"
    /\ fbPage.requests = totalToFetch \div batchSize
    /\ fbPage.start = totalToFetch - batchSize
    /\ fbPage.outcome = "page"
    /\ ~fbPage.stopped
    /\ fbPage.accepted = fbPage.served

\* C26: between two page requests of a fallback cycle that follow each other
\* the fixed delay has run, whether the first of the two was answered or
\* failed in transport.
C26_DelayBetweenPages ==
    [][(fbPage' # fbPage /\ fbPage.requests > 0) => fbPage.delayed]_vars

\* C27: the anchor of a fallback cycle is set once, from the first record of
\* the page at offset 0, and does not change afterwards; no record of a later
\* page becomes the anchor.
C27_AnchorFromFirstPage ==
    [][newestPaperDate' # newestPaperDate =>
          /\ newestPaperDate.isNull
          /\ fbStart = 0
          /\ newestPaperDate'.time = fbPage'.served[1].published]_vars

\* C28: the Relevance Filter cuts its n input records, in order, into
\* ceil(n/50) batches of at most 50, every record in exactly one batch, and
\* calls the scorer for a batch only once the call for the batch before it
\* has resolved: at most one scoring request is pending at any time.
C28_SequentialBatches ==
    /\ Cardinality(fltPending) <= 1
    /\ fltPending # {} =>
          /\ fltPending = {fltI}
          /\ fltPc = "await"
          /\ Len(fltLog) * BATCH_SIZE = fltI
    /\ \A k \in 1..Len(fltLog) :
          /\ fltLog[k].start = (k - 1) * BATCH_SIZE
          /\ Len(fltLog[k].batch) \in 1..BATCH_SIZE
    /\ LET cut == Concat([k \in 1..Len(fltLog) |-> fltLog[k].batch])
       IN  /\ cut = SubSeq(fltPapers, 1, Len(cut))
           /\ fltPc = "returned" =>
                 /\ cut = fltPapers
                 /\ Len(fltLog) = (Len(fltPapers) + BATCH_SIZE - 1) \div BATCH_SIZE

\* the request for the second batch, of one record, is pending; the first
\* batch of 50 has resolved
C28_Witness ==
    /\ fltPc = "await"
    /\ fltPending = {BATCH_SIZE}
    /\ Len(fltPapers) = MaxFilterInput
    /\ Len(fltLog) = 1
    /\ Len(fltLog[1].batch) = BATCH_SIZE

\* C29: saveRawData and saveFilteredData write the new snapshot before they
\* delete a superseded key: when the local write fails no key of the
\* directory is deleted, the store is as it was before the call, no mirror
\* request is sent and nothing is raised to the caller.
C29_WriteBeforeDelete ==
    lastCommit.op \in {"rawThrows", "filteredThrows"} =>
        /\ mirrorLocal = lastCommit.before
        /\ \A d \in lastCommit.stale :
               hasItem(mirrorLocal, [dir |-> IF lastCommit.op = "rawThrows"
                                             THEN PATH_RAW_DIR ELSE PATH_FILTERED_DIR,
                                     file |-> d])
        /\ ~mirrorReq.issued
        /\ mpc = "idle"
        /\ ~mirrorRaised

\* the write of today's raw snapshot fails with a webhook URL set and
\* yesterday's raw snapshot in the store
C29_Witness ==
    /\ lastCommit.op = "rawThrows"
    /\ cloudUrl
    /\ lastCommit.date = 2
    /\ lastCommit.stale = {1}
    /\ hasItem(ls, getRawPath(1))
    /\ ~hasItem(ls, getRawPath(2))
    /\ hasItem(ls, getFilteredPath(1))

\* the entries of the store under a directory, in key order
Channel(s, dir) ==
    LET under(e) == e.key.dir = dir
    IN  SelectSeq(s, under)

\* the entries of the settings keys
Settings(s) ==
    LET setting(e) == e.key \in {KEY_API_KEY, KEY_MODEL, KEY_CLOUD_URL}
    IN  SelectSeq(s, setting)

\* C30: a commit touches its own channel only: saveRawData leaves the
\* filtered files, the report files and the manifest as they are,
\* saveFilteredData the raw files, the report files and the manifest,
\* saveReport the raw and the filtered files; none of them changes a
\* settings key.
C30_ChannelFrames ==
    [][/\ CommitRaw =>
            /\ Channel(ls', PATH_FILTERED_DIR) = Channel(ls, PATH_FILTERED_DIR)
            /\ Channel(ls', PATH_REPORTS_DIR) = Channel(ls, PATH_REPORTS_DIR)
            /\ Settings(ls') = Settings(ls)
       /\ CommitFiltered =>
            /\ Channel(ls', PATH_RAW_DIR) = Channel(ls, PATH_RAW_DIR)
            /\ Channel(ls', PATH_REPORTS_DIR) = Channel(ls, PATH_REPORTS_DIR)
            /\ Settings(ls') = Settings(ls)
       /\ HistoryReport =>
            /\ Channel(ls', PATH_RAW_DIR) = Channel(ls, PATH_RAW_DIR)
            /\ Channel(ls', PATH_FILTERED_DIR) = Channel(ls, PATH_FILTERED_DIR)
            /\ Settings(ls') = Settings(ls)]_vars

\* a raw commit removed yesterday's raw file from a store that holds a
\* filtered file, a report, the manifest and the three settings
C30_Witness ==
    /\ lastCommit.op = "raw"
    /\ lastCommit.stale # {}
    /\ FilesOf(PATH_RAW_DIR) = {lastCommit.date}
    /\ Len(Channel(ls, PATH_FILTERED_DIR)) = 1
    /\ Len(Channel(ls, PATH_REPORTS_DIR)) = 2
    /\ Len(Settings(ls)) = 3

\* C31: a report commit on a date the manifest already holds replaces the
\* snapshot of that date by the new payload and leaves the manifest as it
\* is, entries and order; the other report snapshots stay, so there is one
\* report snapshot per date.
C31_RecommitReplaces ==
    [][\A papers \in Payloads :
          (ReportCommit(papers) /\ Includes(getManifest(ls), today)) =>
              /\ getManifest(ls') = getManifest(ls)
              /\ getItem(ls', getReportPath(today)) = Snapshot(today, papers)
              /\ Keys(ls') = Keys(ls)
              /\ \A k \in Keys(ls) \ {getReportPath(today)} :
                     getItem(ls', k) = getItem(ls, k)
              /\ Len(ls') = Cardinality(Keys(ls'))]_vars

\* the date of the last commit is the older entry of the manifest: the commit
\* was made again on that date, with the empty payload
C31_Witness ==
    /\ lastCommit.op = "report"
    /\ Manifest = <<2, 1>>
    /\ lastCommit.date = 1
    /\ getItem(ls, getReportPath(1)) = Snapshot(1, <<>>)
    /\ getItem(ls, getReportPath(2)) = Snapshot(2, <<1>>)

\* C32: runPipeline calls saveRawData and saveReport with records only.  When
\* the fetch gives no record and no cached raw snapshot is taken, the run
\* ends COMPLETED with no commit at all.  When the filter gives no record,
\* the empty filtered snapshot is committed, saveReport is not called, the
\* report files and the manifest stay as they are and the run ends COMPLETED.
C32_EmptyStages ==
    /\ [](/\ ppc = "saveRawData" => fetchedData # <<>>
          /\ runSaved["raw"].written => runSaved["raw"].val.list # <<>>
          /\ ppc \in {"analyze", "saveReport"} =>
                (papersToAnalyze # <<>> /\ filteredResults # <<>>)
          /\ runSaved["report"].written => runSaved["report"].val.list # <<>>
          /\ (ppc = "saveFilteredData" /\ runSaved["filtered"].written) =>
                /\ runSaved["filtered"].val.list = filteredResults
                /\ getItem(ls, runSaved["filtered"].key).list = filteredResults)
    /\ [][(ppc = "fetch" /\ ppc' = "idle") =>
            (ls' = ls /\ runSaved' = NoneSaved /\ status' = "COMPLETED")]_vars
    /\ [][(ppc = "saveFilteredData" /\ filteredResults = <<>> /\ ppc' # ppc) =>
            /\ ppc' = "idle"
            /\ status' = "COMPLETED"
            /\ ls' = ls
            /\ ~runSaved'["report"].written]_vars
    /\ [][Channel(ls', PATH_REPORTS_DIR) # Channel(ls, PATH_REPORTS_DIR) =>
            (ppc = "analyze" /\ papersToAnalyze # <<>>)]_vars

\* a run whose filter gave no record has ended, next to the report of an
\* earlier run
C32_Witness ==
    /\ status = "COMPLETED"
    /\ pipeLog = <<"commit_raw", "load_raw", "filter", "commit_filtered", "COMPLETED">>
    /\ runSaved["raw"].written
    /\ runSaved["filtered"].written
    /\ hasItem(ls, getFilteredPath(today))
    /\ getItem(ls, getFilteredPath(today)).list = <<>>
    /\ ~runSaved["report"].written
    /\ hasItem(ls, getReportPath(today))
    /\ Manifest = <<today>>

\* C33: when the listing scrape gives an identifier, the fallback is never
\* called, and when every detail batch fails in transport or answers a feed
\* without entry, fetchLatestPapers returns the empty sequence.
C33_NoFallbackAfterScrape ==
    /\ fetchPath = "primary" =>
          /\ uniqueIds # <<>>
          /\ fpc \in {"detail", "done"}
          /\ fbPage.requests = 0
          /\ allPapers = <<>>
    /\ (fpc = "done" /\ fetchPath = "primary"
          /\ \A k \in 1..Len(detailLog) : ~detailLog[k].ok \/ detailLog[k].papers = <<>>) =>
          fetched = <<>>

\* of two detail batches the first fails and the second answers no entry
C33_Witness ==
    /\ fpc = "done"
    /\ fetchPath = "primary"
    /\ Len(detailLog) = 2
    /\ ~detailLog[1].ok
    /\ detailLog[2].ok
    /\ detailLog[2].papers = <<>>
    /\ fetched = <<>>
    /\ fbPage.requests = 0

\* C34: whatever the scorer answers, an identifier repeated included, the
\* output of the Relevance Filter for an input without repeated identifier
\* holds each identifier at most once and is not longer than the input.
C34_OutputWithinInput ==
    (fltPc = "returned" /\ \A id \in Ids(fltPapers) : Count(fltPapers, id) = 1) =>
        /\ \A id \in Ids(allFilteredPapers) : Count(allFilteredPapers, id) = 1
        /\ Len(allFilteredPapers) <= Len(fltPapers)

\* C35: at most one pipeline run is active at any time: a run is started, by
\* the Run button or by the 23:59 timer, only while no other run is between
\* its start and its terminal status.
C35_OneActiveRun ==
    /\ [](Len(runs) <= 1)
    /\ [][Len(runs') > Len(runs) => runs = <<>>]_vars

C38_OrderIndependent ==
    anPc = "returned" =>
        /\ Len(anResult) = Len(anPapers)
        /\ \A i \in 1..Len(anPapers) :
              /\ anSlots[i].at \in 1..Len(anPapers)
              /\ anResult[i] = anSlots[i].out
              /\ anResult[i].id = anPapers[i].id
              /\ \/ anResult[i] = anPapers[i]
                 \/ /\ anSlots[i].kind = "object"
                    /\ \E a \in AnalyzerAnswers : anResult[i] = a.analysis @@ anPapers[i]

\* three calls complete in the reverse of the input order
C38_Witness ==
    /\ anPc = "returned"
    /\ Len(anPapers) = 3
    /\ anSlots[1].at = 3
    /\ anSlots[2].at = 2
    /\ anSlots[3].at = 1
    /\ anSlots[1].kind = "object"
    /\ anSlots[3].kind = "transport"
    /\ anResult[1].innovations = "i"
    /\ anResult[3] = anPapers[3]

\* C37: fetchLatestPapers always ends by returning a sequence of records and
\* never raises, whatever each request returns, as long as it returns; it
\* makes two listing requests and at most ten fallback page requests, and when
\* every strategy fails for every request it returns the empty sequence after
\* the two listing requests and ten page requests.
C37_FetchTerminates ==
    /\ [](/\ fpc \in {"idle", "scrape", "detail", "fallback", "done"}
          /\ fbPage.requests * batchSize <= totalToFetch
          /\ fpc = "done" =>
                /\ idLists[1].done /\ idLists[2].done
                /\ fetchPath \in {"primary", "fallback"}
                /\ fetched \in Seq(Range(chunkedPapers) \cup Range(allPapers))
          /\ (fpc = "done" /\ fetchPath = "fallback" /\ fbPage.outcome = "failed"
                /\ allPapers = <<>>) =>
                /\ fetched = <<>>
                /\ fbPage.requests * batchSize = totalToFetch)
    /\ (fpc = "scrape") ~> (fpc = "done")

\* both listing requests and all ten page requests have failed
C37_Witness ==
    /\ fpc = "done"
    /\ scrapeFailed
    /\ idLists[1].ids = <<>> /\ idLists[2].ids = <<>>
    /\ fetchPath = "fallback"
    /\ fbPage.outcome = "failed"
    /\ fbPage.requests = 10
    /\ allPapers = <<>>
    /\ fetched = <<>>

====
